---- MODULE Spec2Model ----
(***************************************************************************)
(* Decomposition of composite walls into single-layer walls                *)
(* (MockBreakupWalls.pushbutton/script.py).                                *)
(*                                                                         *)
(* Lengths are integers in units of 1e-7 ft, so that round(width, 6) is a  *)
(* real rounding (to a multiple of 10).  Lateral offsets are stored        *)
(* doubled (offset field = 2 * offset in the source), which keeps          *)
(* (start + end) / 2 and totalWidth / 2 exact.                             *)
(***************************************************************************)
EXTENDS Integers, Sequences, FiniteSets, TLC

\* ------------------------------------------------------------------ bounds
MaxElems == 2        \* walls processed over the whole run
MaxFaults == 1       \* host refusals (exceptions) injected over the whole run
MaxBatchLen == MaxElems    \* walls selected for one batch

\* ------------------------------------------------------- program constants
WIDTH_EPS == 10               \* _WIDTH_EPS = 1e-6
OFFSET_TOLERANCE == 1000      \* _OFFSET_TOLERANCE = 1e-4

\* ------------------------------------------------------------ small helpers
EmptyMap == [x \in {} |-> 0]
Put(f, k, v) == [x \in (DOMAIN f) \cup {k} |-> IF x = k THEN v ELSE f[x]]
Drop(f, k) == [x \in (DOMAIN f) \ {k} |-> f[x]]
Abs(x) == IF x < 0 THEN -x ELSE x
Range(s) == {s[i] : i \in DOMAIN s}

RECURSIVE SetToSeq(_)
\* ascending enumeration of a finite set of integers
SetToSeq(S) ==
    IF S = {} THEN <<>>
    ELSE LET m == CHOOSE x \in S : \A y \in S : x <= y
         IN <<m>> \o SetToSeq(S \ {m})

\* ------------------------------------------------- the project (host model)
\* material 0 is ElementId.InvalidElementId; function "None" is a layer whose
\* Function cannot be read
Layer(w, m, f) == [width |-> w, material |-> m, function |-> f]

\* Wall types present in the project before the first batch: two composite
\* types, one type without layers, one with only negligible layers, and one
\* single-layer type.  first_core / last_core are 0-based, -1 when absent.
InitTypes ==
    (101 :> [layers |-> << Layer(200000, 1, "Finish1"),
                           Layer(1000000, 2, "Structure"),
                           Layer(200000, 1, "Finish1") >>,
             first_core |-> 1, last_core |-> 1])
 @@ (102 :> [layers |-> << Layer(1000004, 2, "Structure"),
                           Layer(0, 0, "Membrane") >>,
             first_core |-> 0, last_core |-> 0])
 @@ (103 :> [layers |-> << >>, first_core |-> -1, last_core |-> -1])
 @@ (104 :> [layers |-> << Layer(10, 1, "Finish1"), Layer(0, 0, "Membrane") >>,
             first_core |-> -1, last_core |-> -1])
 @@ (105 :> [layers |-> << Layer(1000000, 2, "Structure") >>,
             first_core |-> 0, last_core |-> 0])

\* Source walls of the project.  src / index record, for a derived wall, the
\* source wall and the layer it was created for (0 for an authored wall).
SrcWall(t, line, curve) ==
    [type |-> t, location_line |-> line, has_curve |-> curve, src |-> 0, index |-> 0]

InitWalls ==
    (1 :> SrcWall(101, "WallCenterline", TRUE))
 @@ (2 :> SrcWall(101, "WallCenterline", TRUE))
 @@ (3 :> SrcWall(101, "FinishFaceExterior", TRUE))
 @@ (4 :> SrcWall(102, "CoreFaceExterior", TRUE))
 @@ (5 :> SrcWall(103, "WallCenterline", TRUE))
 @@ (6 :> SrcWall(104, "WallCenterline", TRUE))
 @@ (7 :> SrcWall(102, "WallCenterline", FALSE))

\* hosted family instances: host wall, the authored instance it stands for
InitFixtures ==
    (51 :> [host |-> 1, origin |-> 51])
 @@ (52 :> [host |-> 7, origin |-> 52])

\* geometric joins, <<cutting, cut>>
InitJoins == { <<1, 2>>, <<3, 2>>, <<4, 1>> }

\* VIEW_DETAIL_LEVEL of the active view before the first batch
InitViewDetail == "Medium"

InitDoc ==
    [walls |-> InitWalls, types |-> InitTypes, fixtures |-> InitFixtures,
     joins |-> InitJoins, openings |-> {}, view_detail |-> InitViewDetail]


\* ------------------------------------------------------------ Assembly model
RECURSIVE SumWidth(_, _)
\* the running `position` of _structure_layers_data after n layers
SumWidth(layers, n) ==
    IF n = 0 THEN 0 ELSE SumWidth(layers, n - 1) + layers[n].width

\* _structure_layers_data: (data, total_width, core_start, core_end)
structure_layers_data(structure) ==
    LET ls == structure.layers
        n == Len(ls)
        fc == structure.first_core
        lc == structure.last_core
        data == [i \in 1..n |->
                    [index |-> i,
                     width |-> ls[i].width,
                     start |-> SumWidth(ls, i - 1),
                     end |-> SumWidth(ls, i - 1) + ls[i].width,
                     material_id |-> ls[i].material,
                     function |-> ls[i].function,
                     is_core |-> fc # -1 /\ lc # -1 /\ fc <= i - 1 /\ i - 1 <= lc,
                     is_first |-> i = 1,
                     is_last |-> i = n]]
        total == SumWidth(ls, n)
    IN [data |-> data,
        total_width |-> total,
        core_start |-> IF n > 0 /\ fc # -1 THEN data[fc + 1].start ELSE 0,
        core_end |-> IF n > 0 /\ lc # -1 THEN data[lc + 1].end ELSE total]

\* _breakup_wall, the filter on width > _WIDTH_EPS and the re-indexing of
\* is_first / is_last over the surviving layers
usable_layers(data) ==
    LET keep == SetToSeq({i \in DOMAIN data : data[i].width > WIDTH_EPS})
        n == Len(keep)
    IN [k \in 1..n |->
           [data[keep[k]] EXCEPT !.is_first = (k = 1), !.is_last = (k = n)]]

\* round(width, 6): to the nearest multiple of 10 units, halves away from zero
Round6(w) == ((w + 5) \div 10) * 10

\* int(function) of MaterialFunctionAssignment
FunctionCode(f) ==
    CASE f = "Structure" -> 1
      [] f = "Substrate" -> 2
      [] f = "Insulation" -> 3
      [] f = "Finish1" -> 4
      [] f = "Finish2" -> 5
      [] f = "Membrane" -> 100
      [] OTHER -> 0

\* _make_signature: (round(width, 6), material or -1, function code or -1)
make_signature(layer_info) ==
    << Round6(layer_info.width),
       IF layer_info.material_id > 0 THEN layer_info.material_id ELSE -1,
       IF layer_info.function # "None" THEN FunctionCode(layer_info.function) ELSE -1 >>

\* _layer_signature_for_join: (material key, round(width, 6), function)
layer_signature_for_join(layer_info) ==
    << layer_info.material_id, Round6(layer_info.width), layer_info.function >>

\* a reference offset that takes the interior core face for the exterior one
reference_offset_core_faces_swapped(location_line, total_width, core_start, core_end) ==
    CASE location_line = "WallCenterline" -> total_width
      [] location_line = "FinishFaceExterior" -> 0
      [] location_line = "FinishFaceInterior" -> 2 * total_width
      [] location_line = "CoreFaceExterior" -> 2 * core_end
      [] location_line = "CoreFaceInterior" -> 2 * core_start
      [] location_line = "CoreCenterline" -> core_start + core_end
      [] OTHER -> total_width

\* _reference_offset, doubled.  A value WallLocationLine does not know ends in
\* the final `return total_width / 2.0`.
reference_offset(location_line, total_width, core_start, core_end) ==
    CASE location_line = "WallCenterline" -> total_width
      [] location_line = "FinishFaceExterior" -> 0
      [] location_line = "FinishFaceInterior" -> 2 * total_width
      [] location_line = "CoreFaceExterior" -> 2 * core_start
      [] location_line = "CoreFaceInterior" -> 2 * core_end
      [] location_line = "CoreCenterline" -> core_start + core_end
      [] OTHER -> total_width

\* ------------------------------------------------------------------- state
VARIABLES
    doc,        \* the host model: walls, types, fixtures, joins, openings
    nextId,     \* next ElementId the host hands out
    tx,         \* the Transaction of _breakup_wall: none, open, committed, rolledback
    snap,       \* the host model as it was at t.Start()
    sigCache,   \* _SIGNATURE_CACHE: signature -> type id
    joinCache,  \* _LAYER_JOIN_CACHE: wall id -> entry
    pending,    \* _PENDING_LAYER_JOINS: wall id -> list of items
    pc,         \* position in main / _breakup_wall
    batch,      \* walls of the running batch, in processing order
    bi,         \* index into batch of the wall being processed
    results,    \* results of main
    ret,        \* the value _breakup_wall returned
    loc,        \* locals of the running _breakup_wall
    call,       \* the host model and the caches as they were at the call
    nelems,     \* walls processed so far
    faults,     \* host refusals so far
    dupCalls,   \* successful Duplicate calls of the running batch, per signature
    calc        \* arguments and result of one helper called on its own

vars == << doc, nextId, tx, snap, sigCache, joinCache, pending, pc, batch, bi,
           results, ret, loc, call, nelems, faults, dupCalls, calc >>

NoEntry == [wall_type_id |-> 0, layers |-> << >>]
NoRet == [status |-> "none", created |-> 0, message |-> "none", wall_id |-> 0]
NoLoc ==
    [wall |-> 0, wall_type_id |-> 0, layer_data |-> << >>, total_width |-> 0,
     core_start |-> 0, core_end |-> 0, joined |-> << >>, hosted |-> << >>,
     selected |-> 0, reference_offset |-> 0, li |-> 0, created |-> << >>,
     produced |-> << >>, host_wall |-> 0, preceding |-> << >>, preview |-> "none",
     layer_type |-> 0]
NoCall == [doc |-> InitDoc, sigCache |-> EmptyMap, joinCache |-> EmptyMap,
           pending |-> EmptyMap, active |-> FALSE]
NoCalc == [op |-> "none", fn |-> "none"]

\* the program before the first batch
InitProgram ==
    /\ doc = InitDoc
    /\ nextId = 201
    /\ tx = "none"
    /\ snap = InitDoc
    /\ sigCache = EmptyMap
    /\ joinCache = EmptyMap
    /\ pending = EmptyMap
    /\ pc = "idle"
    /\ batch = << >>
    /\ bi = 0
    /\ results = << >>
    /\ ret = NoRet
    /\ loc = NoLoc
    /\ call = NoCall
    /\ nelems = 0
    /\ faults = 0
    /\ dupCalls = EmptyMap

Init == InitProgram /\ calc = NoCalc

\* ------------------------------------------------------------ host queries
\* JoinGeometryUtils.AreElementsJoined / GetJoinedElements on a join set
AreJoined(joins, a, b) == <<a, b>> \in joins \/ <<b, a>> \in joins
JoinedElements(joins, w) ==
    {n \in {j[1] : j \in joins} \cup {j[2] : j \in joins} : n # w /\ AreJoined(joins, w, n)}

\* doc.Delete of a wall: the host removes with it the instances it hosts, its
\* joins and its openings
DeleteWall(d, w) ==
    [d EXCEPT
        !.walls = Drop(d.walls, w),
        !.fixtures = [f \in {g \in DOMAIN d.fixtures : d.fixtures[g].host # w}
                        |-> d.fixtures[f]],
        !.joins = {j \in d.joins : j[1] # w /\ j[2] # w},
        !.openings = {o \in d.openings : o[1] # w}]

\* ---------------------------------------------------------- Join reconciler
\* _get_layer_offset / _offset_difference (doubled); every layer record of the
\* model carries an offset, so the None branches of the source do not arise
offset_difference(layer_a, layer_b) == Abs(layer_a.offset - layer_b.offset)

\* _offsets_compatible
offsets_compatible(layer_a, layer_b) ==
    offset_difference(layer_a, layer_b) <= 2 * OFFSET_TOLERANCE

\* _match_layer_by_signature: index into candidates of the layer chosen, 0 for None
match_layer_by_signature(target_layer, candidates, used_ids) ==
    LET eligible == {i \in DOMAIN candidates :
                        /\ candidates[i].wall_id \notin used_ids
                        /\ layer_signature_for_join(candidates[i])
                             = layer_signature_for_join(target_layer)}
        near == {i \in eligible : offsets_compatible(target_layer, candidates[i])}
        diff(i) == offset_difference(target_layer, candidates[i])
        best == {i \in eligible : \A k \in eligible : diff(i) <= diff(k)}
        first(S) == CHOOSE i \in S : \A k \in S : i <= k
    IN IF near # {} THEN first(near)
       ELSE IF eligible # {} THEN first(best)
       ELSE 0

\* _join_two_walls on the join set of the host.  h is what the host does in
\* this call: whether JoinGeometry joins, which element it lets cut, whether
\* SwitchJoinOrder switches.  Result: joined (the return value) and the joins.
join_two_walls(d, joins, first_id, second_id, should_first_cut, h) ==
    IF first_id \notin DOMAIN d.walls \/ second_id \notin DOMAIN d.walls
         \/ first_id = second_id
    THEN [joined |-> FALSE, joins |-> joins]
    ELSE LET j1 == IF AreJoined(joins, first_id, second_id) THEN joins
                   ELSE IF h.join_ok
                        THEN joins \cup {IF h.first_cuts THEN <<first_id, second_id>>
                                         ELSE <<second_id, first_id>>}
                        ELSE joins
             is_cutting == <<first_id, second_id>> \in j1
             want == (should_first_cut = "T")
             j2 == IF should_first_cut # "N" /\ is_cutting # want /\ h.switch_ok
                   THEN (j1 \ {<<first_id, second_id>>, <<second_id, first_id>>})
                          \cup {IF want THEN <<first_id, second_id>>
                                ELSE <<second_id, first_id>>}
                   ELSE j1
         IN IF ~AreJoined(j1, first_id, second_id)
            THEN [joined |-> FALSE, joins |-> j1]
            ELSE [joined |-> TRUE, joins |-> j2]

\* layers_b_by_index of _attempt_layer_joins: the last layer of layers_b with
\* that index, 0 when there is none
layer_by_index(layers_b, index) ==
    LET S == {i \in DOMAIN layers_b : layers_b[i].index = index}
    IN IF S = {} THEN 0 ELSE CHOOSE i \in S : \A k \in S : k <= i

\* a loop that does not remember the walls it joined
used_b_unchanged(used_b, wall_id, joined) == used_b

\* _attempt_layer_joins, `used_b.add(..)` after a join that was made
used_b_after(used_b, wall_id, joined) ==
    IF joined THEN used_b \cup {wall_id} ELSE used_b

RECURSIVE attempt_from(_, _, _, _, _, _, _, _)
\* the loop of _attempt_layer_joins from layer i of layers_a on
attempt_from(i, layers_a, layers_b, should_first_cut, d, joins, used_b, h) ==
    IF i > Len(layers_a) THEN joins
    ELSE LET layer_a == layers_a[i]
             bi0 == layer_by_index(layers_b, layer_a.index)
             bsel == IF bi0 = 0 \/ layers_b[bi0].wall_id \in used_b
                     THEN match_layer_by_signature(layer_a, layers_b, used_b)
                     ELSE IF ~offsets_compatible(layer_a, layers_b[bi0])
                     THEN match_layer_by_signature(layer_a, layers_b,
                                                   used_b \cup {layers_b[bi0].wall_id})
                     ELSE bi0
         IN IF bsel = 0
            THEN attempt_from(i + 1, layers_a, layers_b, should_first_cut, d, joins, used_b, h)
            ELSE LET r == join_two_walls(d, joins, layer_a.wall_id,
                                         layers_b[bsel].wall_id, should_first_cut, h)
                 IN attempt_from(i + 1, layers_a, layers_b, should_first_cut, d, r.joins,
                                 used_b_after(used_b, layers_b[bsel].wall_id, r.joined), h)

\* _attempt_layer_joins: the joins of the host after it
attempt_layer_joins(entry_a, entry_b, join_meta, d, joins, h) ==
    IF entry_a.layers = << >> \/ entry_b.layers = << >> THEN joins
    ELSE IF entry_a.wall_type_id # entry_b.wall_type_id /\ ~join_meta.allow_mismatch
    THEN joins
    ELSE attempt_from(1, entry_a.layers, entry_b.layers, join_meta.self_cuts,
                      d, joins, {}, h)

\* a queue item that keeps the cut precedence as recorded
keep_join_meta(join_meta) == join_meta

\* _invert_join_meta
invert_join_meta(join_meta) ==
    [self_cuts |-> CASE join_meta.self_cuts = "T" -> "F"
                     [] join_meta.self_cuts = "F" -> "T"
                     [] OTHER -> "N",
     allow_mismatch |-> join_meta.allow_mismatch]

RECURSIVE Insert(_, _)
Insert(x, s) ==
    IF s = << >> THEN <<x>>
    ELSE IF x <= Head(s) THEN <<x>> \o s
    ELSE <<Head(s)>> \o Insert(x, Tail(s))

RECURSIVE Sorted(_)
\* sorted(list), duplicates kept
Sorted(s) == IF s = << >> THEN << >> ELSE Insert(Head(s), Sorted(Tail(s)))

\* _entry_identity: (wall type key, sorted layer wall ids); <<>> stands for None
entry_identity(entry) ==
    IF entry.layers = << >> THEN << >>
    ELSE << entry.wall_type_id,
            Sorted([i \in DOMAIN entry.layers |-> entry.layers[i].wall_id]) >>

\* an enqueue that appends whatever is queued already
enqueue_without_check(pend, target_wall_id, entry, meta) ==
    IF target_wall_id = 0 \/ entry.layers = << >> THEN pend
    ELSE Put(pend, target_wall_id,
             Append(IF target_wall_id \in DOMAIN pend THEN pend[target_wall_id] ELSE << >>,
                    [entry |-> entry, meta |-> meta,
                     identity |-> << entry.wall_type_id,
                                     [i \in DOMAIN entry.layers |-> entry.layers[i].wall_id] >>]))

\* _enqueue_pending_join on the queue
enqueue_pending_join(pend, target_wall_id, entry, meta) ==
    IF target_wall_id = 0 \/ entry_identity(entry) = << >> THEN pend
    ELSE LET items == IF target_wall_id \in DOMAIN pend THEN pend[target_wall_id]
                      ELSE << >>
             item == [entry |-> entry, meta |-> meta, identity |-> entry_identity(entry)]
         IN IF \E k \in DOMAIN items :
                  items[k].identity = item.identity /\ items[k].meta = meta
            THEN Put(pend, target_wall_id, items)
            ELSE Put(pend, target_wall_id, Append(items, item))

\* _build_join_entry_from_existing_wall: the layer entry synthesized for a wall
\* that is not decomposed; NoEntry stands for None
build_join_entry_from_existing_wall(d, wall, expected_signatures, target_type_id) ==
    LET w == d.walls[wall]
        sld == structure_layers_data(d.types[w.type])
        ref == IF w.has_curve
               THEN reference_offset(w.location_line, sld.total_width,
                                     sld.core_start, sld.core_end)
               ELSE sld.total_width
        keep == SetToSeq({i \in DOMAIN sld.data :
                            /\ sld.data[i].width > WIDTH_EPS
                            /\ layer_signature_for_join(sld.data[i]) \in expected_signatures})
        filtered == [k \in 1..Len(keep) |->
                        LET info == sld.data[keep[k]]
                        IN [index |-> info.index,
                            function |-> info.function,
                            width |-> info.width,
                            material_id |-> info.material_id,
                            wall_id |-> wall,
                            offset |-> (info.start + info.end) - ref,
                            reference_offset |-> ref]]
    IN IF filtered = << >> THEN NoEntry
       ELSE [wall_type_id |-> target_type_id, layers |-> filtered]

RECURSIVE collect_from(_, _, _, _, _, _, _, _)
\* the loop of _collect_joined_wall_ids over the joined elements ids[i..]
collect_from(i, ids, d, cache, wall, wall_type_id, expected_signatures, acc) ==
    IF i > Len(ids) THEN [results |-> acc, cache |-> cache]
    ELSE LET key == ids[i]
             info == [id |-> key,
                      self_cuts |-> IF <<wall, key>> \in d.joins THEN "T" ELSE "F",
                      entry |-> NoEntry,
                      allow_mismatch |-> FALSE]
             synth == build_join_entry_from_existing_wall(
                          d, key, expected_signatures, wall_type_id)
         IN IF key \in DOMAIN cache
            THEN IF cache[key].wall_type_id = wall_type_id
                 THEN collect_from(i + 1, ids, d, cache, wall, wall_type_id,
                                   expected_signatures,
                                   Append(acc, [info EXCEPT !.entry = cache[key]]))
                 ELSE collect_from(i + 1, ids, d, cache, wall, wall_type_id,
                                   expected_signatures, acc)
            ELSE IF d.walls[key].type = wall_type_id
            THEN collect_from(i + 1, ids, d, cache, wall, wall_type_id,
                              expected_signatures, Append(acc, info))
            ELSE IF synth # NoEntry
            THEN collect_from(i + 1, ids, d, Put(cache, key, synth), wall, wall_type_id,
                              expected_signatures,
                              Append(acc, [info EXCEPT !.entry = synth,
                                                       !.allow_mismatch = TRUE]))
            ELSE collect_from(i + 1, ids, d, cache, wall, wall_type_id,
                              expected_signatures, acc)

\* _collect_joined_wall_ids: the neighbour infos and the join cache after it
collect_joined_wall_ids(d, cache, wall, wall_type_id, layer_data) ==
    collect_from(1, SetToSeq(JoinedElements(d.joins, wall)), d, cache, wall,
                 wall_type_id,
                 {layer_signature_for_join(layer_data[i]) : i \in DOMAIN layer_data},
                 << >>)

\* a reconciliation that drops the items queued under the wall unattempted
pending_dropped(i, items, entry, d, joins, h) == joins

RECURSIVE pending_from(_, _, _, _, _, _)
\* _handle_layer_joins, the loop over the pending items queued under the wall
pending_from(i, items, entry, d, joins, h) ==
    IF i > Len(items) THEN joins
    ELSE pending_from(i + 1, items, entry, d,
                      attempt_layer_joins(entry, items[i].entry, items[i].meta, d, joins, h),
                      h)

RECURSIVE neighbours_from(_, _, _, _, _, _, _, _)
\* _handle_layer_joins, the loop over the recorded neighbours
neighbours_from(i, infos, entry, cache, d, joins, pend, h) ==
    IF i > Len(infos) THEN [joins |-> joins, pending |-> pend]
    ELSE LET info == infos[i]
             neighbour_entry ==
                 IF info.entry # NoEntry THEN info.entry
                 ELSE IF info.id \in DOMAIN cache THEN cache[info.id]
                 ELSE NoEntry
             meta == [self_cuts |-> info.self_cuts, allow_mismatch |-> info.allow_mismatch]
             j == IF neighbour_entry # NoEntry
                  THEN attempt_layer_joins(entry, neighbour_entry, meta, d, joins, h)
                  ELSE joins
         IN neighbours_from(i + 1, infos, entry, cache, d, j,
                            enqueue_pending_join(pend, info.id, entry, invert_join_meta(meta)),
                            h)

\* the layer records _handle_layer_joins builds from produced_layers
layer_records(produced_layers) ==
    [k \in DOMAIN produced_layers |->
        [index |-> produced_layers[k].info.index,
         function |-> produced_layers[k].info.function,
         width |-> produced_layers[k].info.width,
         material_id |-> produced_layers[k].info.material_id,
         wall_id |-> produced_layers[k].wall,
         offset |-> produced_layers[k].offset,
         reference_offset |-> produced_layers[k].reference_offset]]

\* _handle_layer_joins: the joins of the host, the join cache and the queue
\* after it
handle_layer_joins(original_wall_id, wall_type_id, produced_layers, joined_wall_ids, d, cache, pend, h) ==
    IF produced_layers = << >>
    THEN [joins |-> d.joins, cache |-> cache, pending |-> pend]
    ELSE LET entry == [wall_type_id |-> wall_type_id,
                       layers |-> layer_records(produced_layers)]
             cache1 == Put(cache, original_wall_id, entry)
             items == IF original_wall_id \in DOMAIN pend THEN pend[original_wall_id]
                      ELSE << >>
             pend1 == Drop(pend, original_wall_id)
             j1 == pending_from(1, items, entry, d, d.joins, h)
             r == neighbours_from(1, joined_wall_ids, entry, cache1, d, j1, pend1, h)
         IN [joins |-> r.joins, cache |-> cache1, pending |-> r.pending]

\* ------------------------------------------------------ Type resolution cache
\* the single-layer types of the host a scan of _find_existing_single_layer_type
\* accepts for a signature
scan_matches(types, signature) ==
    {t \in DOMAIN types :
        /\ Len(types[t].layers) = 1
        /\ Abs(types[t].layers[1].width - signature[1]) <= WIDTH_EPS
        /\ signature[2] # -1 =>
             (IF types[t].layers[1].material > 0 THEN types[t].layers[1].material ELSE -1)
               = signature[2]
        /\ signature[3] # -1 => FunctionCode(types[t].layers[1].function) = signature[3]}

\* _find_existing_single_layer_type: the outcomes (type returned, 0 for None,
\* and the cache after it); the host's collector may yield any matching type first
find_existing_single_layer_type(types, cache, signature) ==
    IF signature \in DOMAIN cache
    THEN {[type |-> cache[signature], cache |-> cache]}
    ELSE IF scan_matches(types, signature) # {}
    THEN {[type |-> c, cache |-> Put(cache, signature, c)] :
             c \in scan_matches(types, signature)}
    ELSE {[type |-> 0, cache |-> cache]}

\* _clone_wall_type_for_layer: the outcomes (type returned, 0 for None; types of
\* the host and cache after it; whether Duplicate created a type; whether the
\* host refused something).  may_fail: the host may refuse in this call.
clone_wall_type_for_layer(types, cache, new_id, source_type, layer_info, may_fail) ==
    LET signature == make_signature(layer_info)
        found == find_existing_single_layer_type(types, cache, signature)
        duplicated == Put(types, new_id, types[source_type])
        new_layer == Layer(layer_info.width,
                           layer_info.material_id,
                           IF layer_info.function # "None" THEN layer_info.function
                           ELSE "Finish1")
        reshaped == Put(types, new_id,
                        [layers |-> <<new_layer>>,
                         first_core |-> IF layer_info.is_core THEN 0 ELSE -1,
                         last_core |-> IF layer_info.is_core THEN 0 ELSE -1])
    IN IF \E f \in found : f.type # 0
       THEN {[type |-> f.type, types |-> types, cache |-> f.cache,
              duplicated |-> FALSE, fault |-> FALSE] : f \in found}
       ELSE {[type |-> new_id, types |-> reshaped, cache |-> Put(cache, signature, new_id),
              duplicated |-> TRUE, fault |-> FALSE]}
            \cup (IF may_fail
                  THEN { \* Duplicate refused 50 names
                         [type |-> 0, types |-> types, cache |-> cache,
                          duplicated |-> FALSE, fault |-> TRUE],
                         \* SetCompoundStructure refused: the duplicate stays
                         [type |-> 0, types |-> duplicated, cache |-> cache,
                          duplicated |-> TRUE, fault |-> TRUE] }
                  ELSE {})

\* ---------------------------------------------------- Hosted-fixture migrator
\* _collect_hosted_instances: the instances hosted by the wall, by id
collect_hosted_instances(d, wall) ==
    SetToSeq({f \in DOMAIN d.fixtures : d.fixtures[f].host = wall})

\* a migration that stops at the first instance the host does not re-create
next_instance_stops(i, n, created) == IF created THEN i + 1 ELSE n + 1

\* _rehost_instances, `continue` after a refused NewFamilyInstance and the end
\* of the loop body: the next instance, whether or not instance i was re-created
next_instance(i, n, created) == i + 1

\* _rehost_instances, the two loops over other_walls for one re-created
\* instance.  cs[k] is what the host does for other_walls[k]: "void" the void
\* cut is added, "manual" it is not and NewOpening creates the opening, "none"
\* neither.  Result: the attempts in the order made, and the openings created.
opening_attempts(new_inst, new_host_wall, other_walls, cs) ==
    LET extra == SetToSeq({k \in DOMAIN other_walls : other_walls[k] # new_host_wall})
        fallback == SelectSeq(extra, LAMBDA k : cs[k] # "void")
    IN [attempts |-> [n \in DOMAIN extra |-> <<other_walls[extra[n]], "void">>]
                       \o [n \in DOMAIN fallback |-> <<other_walls[fallback[n]], "manual">>],
        openings |-> {<<other_walls[extra[n]], new_inst, cs[extra[n]]>> :
                         n \in {m \in DOMAIN extra : cs[extra[m]] # "none"}}]

RECURSIVE rehost_instances(_, _, _, _, _, _, _)
\* _rehost_instances from instance i on.  os[i] is what the host does for
\* instance i: whether NewFamilyInstance creates, how an opening in another
\* layer comes about (void cut, manual opening, none), whether the original is
\* deleted.
rehost_instances(i, instances, new_host_wall, other_walls, d, new_id, os) ==
    IF i > Len(instances) THEN [doc |-> d, nextId |-> new_id]
    ELSE IF ~os[i].create_ok
    THEN rehost_instances(next_instance(i, Len(instances), FALSE), instances,
                          new_host_wall, other_walls, d, new_id, os)
    ELSE LET inst == instances[i]
             d1 == [d EXCEPT
                      !.fixtures = Put(d.fixtures, new_id,
                                       [host |-> new_host_wall,
                                        origin |-> d.fixtures[inst].origin]),
                      !.openings = d.openings \cup
                          opening_attempts(new_id, new_host_wall, other_walls,
                                           [k \in DOMAIN other_walls |-> os[i].cut]).openings]
             d2 == IF os[i].delete_ok
                   THEN [d1 EXCEPT !.fixtures = Drop(d1.fixtures, inst)]
                   ELSE d1
         IN rehost_instances(next_instance(i, Len(instances), TRUE), instances,
                             new_host_wall, other_walls, d2, new_id + 1, os)

\* a choice of the host wall that takes the first produced layer
host_record_first(produced_layers, selected_layer_index) == 1

\* _breakup_wall, the choice of the host wall among the produced layers:
\* index into produced_layers
host_record(produced_layers, selected_layer_index) ==
    LET bySel == {k \in DOMAIN produced_layers :
                    selected_layer_index # 0
                    /\ produced_layers[k].info.index = selected_layer_index}
        byFn == {k \in DOMAIN produced_layers :
                    produced_layers[k].info.function = "Structure"}
        first(S) == CHOOSE k \in S : \A m \in S : k <= m
    IN IF bySel # {} THEN first(bySel)
       ELSE IF byFn # {} THEN first(byFn)
       ELSE 1

\* walls to cut that are all the produced walls but the host wall
preceding_walls_all(produced_layers, host_index) ==
    [n \in 1..(Len(produced_layers) - 1) |->
        produced_layers[IF n < host_index THEN n ELSE n + 1].wall]

\* _breakup_wall, preceding_walls: the produced walls before the host wall
preceding_walls(produced_layers, host_index) ==
    [k \in 1..(host_index - 1) |-> produced_layers[k].wall]

\* a loop over the created walls that also joins the first of them with the
\* authored walls of the model
join_parts_and_neighbours(i, j, created_walls, d, joins, h) ==
    joins \cup {<<created_walls[1], n>> : n \in {x \in DOMAIN d.walls : d.walls[x].src = 0}}

RECURSIVE join_parts_from(_, _, _, _, _, _)
\* _breakup_wall, the loop joining every pair of created walls, from pair
\* (i, j) on
join_parts_from(i, j, created_walls, d, joins, h) ==
    IF i > Len(created_walls) THEN joins
    ELSE IF j > Len(created_walls)
    THEN join_parts_from(i + 1, i + 2, created_walls, d, joins, h)
    ELSE join_parts_from(i, j + 1, created_walls, d,
                         join_two_walls(d, joins, created_walls[i], created_walls[j],
                                        "N", h).joins,
                         h)

\* --------------------------------------------------------------- Orchestrator
\* _handle_failure: the result record of a failed or cancelled element
handle_failure(message, status, wall_id) ==
    [status |-> status, created |-> 0, message |-> message, wall_id |-> wall_id]

\* the host may refuse one more call
MayFail == faults < MaxFaults

\* a RollBack that leaves the changes of the transaction in the model
TxRollBack_keeps(d, s) == d

\* t.RollBack(): the host model falls back to what it was at t.Start()
TxRollBack(d, s) == s

\* `if not created_walls:` followed by a commit instead of the rollback
none_created_commits(d, s) == [tx |-> "committed", doc |-> d]

\* _breakup_wall, `if not created_walls: t.RollBack()`: transaction and model
none_created_outcome(d, s) == [tx |-> "rolledback", doc |-> TxRollBack(d, s)]

\* a handler of the refused Delete that only reports the failure
delete_failed_reports(d, s) == [tx |-> "rolledback", doc |-> d]

\* _breakup_wall, the handler of a refused doc.Delete(wall.Id)
delete_failed_outcome(d, s) == [tx |-> "rolledback", doc |-> TxRollBack(d, s)]

\* `break` in place of `continue` when the wall of a layer was not created
next_layer_breaks(li, n, created) == IF created THEN li + 1 ELSE n + 1

\* _breakup_wall, `continue` in the loop over layer_data: the next layer index,
\* whether or not the wall of layer li was created
next_layer(li, n, created) == li + 1

\* a refused join that ends the transaction
join_refusal_aborts(t) == "rolledback"

\* _join_two_walls, `except Exception: pass` around JoinGeometry and
\* SwitchJoinOrder: the state of the transaction after a refused join
join_refusal_outcome(t) == t

\* a loop of main without the break on a cancelled result
after_result_continues(status) == "loop"

\* main, `if result.get('status') == 'cancelled': break`
after_result(status) == IF status = "cancelled" THEN "summary" ELSE "loop"

\* batches the operator can select: distinct authored walls still in the model
BatchesOf(S, n) ==
    {q \in UNION {[1..k -> S] : k \in 0..n} : \A i, j \in DOMAIN q : i # j => q[i] # q[j]}

\* main, up to the loop: the join cache and the queue are cleared, the walls
\* are collected; with no wall selected main returns
Main ==
    /\ pc = "idle"
    /\ \E walls \in BatchesOf({w \in DOMAIN doc.walls : doc.walls[w].src = 0}, MaxBatchLen) :
          /\ nelems + Len(walls) <= MaxElems
          /\ batch' = walls
          /\ pc' = IF walls = << >> THEN "idle" ELSE "loop"
    /\ joinCache' = EmptyMap
    /\ pending' = EmptyMap
    /\ bi' = 0
    /\ results' = << >>
    /\ dupCalls' = EmptyMap
    /\ UNCHANGED << calc, doc, nextId, tx, snap, sigCache, ret, loc, call, nelems, faults >>

\* main, the head of the loop: the next wall is handed to _breakup_wall, or
\* the loop ends
MainLoop ==
    /\ pc = "loop"
    /\ IF bi < Len(batch)
       THEN /\ bi' = bi + 1
            /\ loc' = [NoLoc EXCEPT !.wall = batch[bi + 1],
                                    !.wall_type_id = doc.walls[batch[bi + 1]].type]
            /\ call' = [doc |-> doc, sigCache |-> sigCache, joinCache |-> joinCache,
                        pending |-> pending, active |-> TRUE]
            /\ pc' = "collect"
       ELSE /\ pc' = "summary"
            /\ UNCHANGED << bi, loc, call >>
    /\ UNCHANGED << calc, doc, nextId, tx, snap, sigCache, joinCache, pending, batch, results,
                    ret, nelems, faults, dupCalls >>

\* _breakup_wall, from _collect_structure to _collect_hosted_instances
Collect ==
    /\ pc = "collect"
    /\ LET sld == structure_layers_data(doc.types[loc.wall_type_id])
           layer_data == usable_layers(sld.data)
           col == collect_joined_wall_ids(doc, joinCache, loc.wall, loc.wall_type_id,
                                          layer_data)
           hosted == collect_hosted_instances(doc, loc.wall)
       IN IF sld.data = << >>
          THEN /\ ret' = handle_failure("no_layers", "error", loc.wall)
               /\ pc' = "returned"
               /\ UNCHANGED << loc, joinCache >>
          ELSE IF layer_data = << >>
          THEN /\ ret' = handle_failure("no_usable_layers", "error", loc.wall)
               /\ pc' = "returned"
               /\ UNCHANGED << loc, joinCache >>
          ELSE /\ loc' = [loc EXCEPT !.layer_data = layer_data,
                                     !.total_width = sld.total_width,
                                     !.core_start = sld.core_start,
                                     !.core_end = sld.core_end,
                                     !.joined = col.results,
                                     !.hosted = hosted]
               /\ joinCache' = col.cache
               /\ pc' = IF hosted # << >> THEN "select" ELSE "context"
               /\ UNCHANGED ret
    /\ UNCHANGED << calc, doc, nextId, tx, snap, sigCache, pending, batch, bi, results, call,
                    nelems, faults, dupCalls >>

\* _adjust_view_detail_for_preview: the outcomes (detail level of the view after
\* it, state['changed'], whether the host refused the transaction)
adjust_view_detail_for_preview(view_detail, may_fail) ==
    IF view_detail = "Fine"
    THEN {[view_detail |-> view_detail, changed |-> FALSE, fault |-> FALSE]}
    ELSE {[view_detail |-> "Fine", changed |-> TRUE, fault |-> FALSE]}
         \cup (IF may_fail
               THEN {[view_detail |-> view_detail, changed |-> FALSE, fault |-> TRUE]}
               ELSE {})

\* _restore_view_detail: the outcomes (detail level of the view after it, whether
\* the host refused the transaction)
restore_view_detail(view_detail, previous, changed, may_fail) ==
    IF ~changed
    THEN {[view_detail |-> view_detail, fault |-> FALSE]}
    ELSE {[view_detail |-> previous, fault |-> FALSE]}
         \cup (IF may_fail THEN {[view_detail |-> view_detail, fault |-> TRUE]} ELSE {})

\* _breakup_wall, the prompt for the host layer: the view is set to fine detail
\* in a transaction of its own, the operator picks a layer or cancels
\* (_select_host_layer), the view detail is set back
SelectHost ==
    /\ pc = "select"
    /\ \E a \in adjust_view_detail_for_preview(doc.view_detail, MayFail) :
       \E choice \in 0..Len(loc.layer_data) :
       \E r \in restore_view_detail(a.view_detail, doc.view_detail, a.changed, MayFail) :
          LET preview == IF ~a.changed THEN "unchanged"
                         ELSE IF r.fault THEN "left" ELSE "restored"
          IN /\ doc' = [doc EXCEPT !.view_detail = r.view_detail]
             /\ faults' = faults + (IF a.fault \/ r.fault THEN 1 ELSE 0)
             /\ IF choice = 0
                THEN /\ ret' = handle_failure("cancelled", "cancelled", loc.wall)
                     /\ pc' = "returned"
                     /\ loc' = [loc EXCEPT !.preview = preview]
                ELSE /\ loc' = [loc EXCEPT !.selected = loc.layer_data[choice].index,
                                           !.preview = preview]
                     /\ pc' = "context"
                     /\ UNCHANGED ret
    /\ UNCHANGED << calc, nextId, tx, snap, sigCache, joinCache, pending, batch, bi,
                    results, call, nelems, dupCalls >>

\* _breakup_wall, _build_wall_context and t.Start()
BuildContext ==
    /\ pc = "context"
    /\ IF ~doc.walls[loc.wall].has_curve
       THEN /\ ret' = handle_failure("no_curve", "error", loc.wall)
            /\ pc' = "returned"
            /\ UNCHANGED << loc, tx, snap >>
       ELSE /\ loc' = [loc EXCEPT
                         !.reference_offset =
                             reference_offset(doc.walls[loc.wall].location_line,
                                              loc.total_width, loc.core_start, loc.core_end),
                         !.li = 1]
            /\ tx' = "open"
            /\ snap' = doc
            /\ pc' = "layers"
            /\ UNCHANGED ret
    /\ UNCHANGED << calc, doc, nextId, sigCache, joinCache, pending, batch, bi, results, call,
                    nelems, faults, dupCalls >>

\* a layer placed by its exterior face instead of its centre
offset_of_start(layer_info, ref) == 2 * layer_info.start - ref

\* _breakup_wall, layer_center and offset_center of a layer, doubled:
\* (start + end) / 2 - context['reference_offset']
offset_center_of(layer_info, ref) == (layer_info.start + layer_info.end) - ref

\* _breakup_wall, one iteration of the loop over layer_data: the type is
\* resolved, the wall is created and prepared for the manual joins
CreateLayer ==
    /\ pc = "layers"
    /\ loc.li <= Len(loc.layer_data)
    /\ LET layer_info == loc.layer_data[loc.li]
           signature == make_signature(layer_info)
           offset_center == offset_center_of(layer_info, loc.reference_offset)
       IN \E r \in clone_wall_type_for_layer(doc.types, sigCache, nextId, loc.wall_type_id,
                                              layer_info, MayFail) :
          \E create_ok \in BOOLEAN :
             LET id1 == IF r.duplicated THEN nextId + 1 ELSE nextId
                 f1 == IF r.fault THEN faults + 1 ELSE faults
                 created == r.type # 0 /\ r.type \in DOMAIN r.types /\ create_ok
                 new_wall == [type |-> r.type,
                              location_line |-> doc.walls[loc.wall].location_line,
                              has_curve |-> TRUE,
                              src |-> loc.wall,
                              index |-> layer_info.index]
             IN /\ (r.type = 0 \/ r.type \notin DOMAIN r.types) => create_ok
                /\ ~create_ok => f1 < MaxFaults
                /\ sigCache' = r.cache
                /\ dupCalls' = IF r.duplicated
                               THEN Put(dupCalls, signature,
                                        IF signature \in DOMAIN dupCalls
                                        THEN dupCalls[signature] + 1 ELSE 1)
                               ELSE dupCalls
                /\ faults' = IF create_ok THEN f1 ELSE f1 + 1
                /\ IF created
                   THEN /\ doc' = [doc EXCEPT
                                     !.types = r.types,
                                     !.walls = Put(doc.walls, id1, new_wall),
                                     !.joins = {j \in doc.joins :
                                                  ~(id1 \in {j[1], j[2]})}]
                        /\ nextId' = id1 + 1
                        /\ loc' = [loc EXCEPT
                                     !.layer_type = r.type,
                                     !.li = next_layer(loc.li, Len(loc.layer_data), TRUE),
                                     !.created = Append(loc.created, id1),
                                     !.produced =
                                         Append(loc.produced,
                                                [wall |-> id1, info |-> layer_info,
                                                 offset |-> offset_center,
                                                 reference_offset |-> loc.reference_offset])]
                   ELSE /\ doc' = [doc EXCEPT !.types = r.types]
                        /\ nextId' = id1
                        /\ loc' = [loc EXCEPT
                                     !.layer_type = r.type,
                                     !.li = next_layer(loc.li, Len(loc.layer_data), FALSE)]
    /\ UNCHANGED << calc, tx, snap, joinCache, pending, pc, batch, bi, results, ret, call,
                    nelems >>

\* _breakup_wall after the loop: with no wall created the transaction is rolled
\* back; otherwise the host wall and the walls preceding it are determined
AfterLayers ==
    /\ pc = "layers"
    /\ loc.li > Len(loc.layer_data)
    /\ IF loc.created = << >>
       THEN /\ doc' = none_created_outcome(doc, snap).doc
            /\ tx' = none_created_outcome(doc, snap).tx
            /\ ret' = handle_failure("none_created", "error", loc.wall)
            /\ pc' = "returned"
            /\ UNCHANGED loc
       ELSE /\ LET host_index == host_record(loc.produced, loc.selected)
               IN loc' = [loc EXCEPT
                            !.host_wall = loc.produced[host_index].wall,
                            !.preceding = preceding_walls(loc.produced, host_index)]
            /\ pc' = "rehost"
            /\ UNCHANGED << doc, tx, ret >>
    /\ UNCHANGED << calc, nextId, snap, sigCache, joinCache, pending, batch, bi, results, call,
                    nelems, faults, dupCalls >>

\* what the host may do for one instance of _rehost_instances; a choice that
\* changes nothing for the given arguments is left out
InstanceOracles(other_walls) ==
    {o \in [create_ok : BOOLEAN, cut : {"void", "manual", "none"}, delete_ok : BOOLEAN] :
        /\ ~o.create_ok => (o.cut = "void" /\ o.delete_ok)
        /\ other_walls = << >> => o.cut = "void"}
InstanceFaults(o) ==
    (IF o.create_ok THEN 0 ELSE 1) + (IF o.cut = "void" THEN 0 ELSE 1)
      + (IF o.delete_ok THEN 0 ELSE 1)

\* what the host may do in one call of _rehost_instances, instance by instance
RehostOracles(instances, other_walls) ==
    [DOMAIN instances -> InstanceOracles(other_walls)]

RECURSIVE FaultsUpTo(_, _)
FaultsUpTo(os, n) == IF n = 0 THEN 0 ELSE FaultsUpTo(os, n - 1) + InstanceFaults(os[n])
RehostFaults(os) == FaultsUpTo(os, Len(os))

\* what the host may do in the join calls of one step
JoinOracles(with_order) ==
    {h \in [join_ok : BOOLEAN, first_cuts : BOOLEAN, switch_ok : BOOLEAN] :
        /\ ~h.join_ok => h.first_cuts
        /\ ~with_order => (h.switch_ok /\ h.first_cuts)}
JoinFaults(h) == (IF h.join_ok THEN 0 ELSE 1) + (IF h.switch_ok THEN 0 ELSE 1)

\* _breakup_wall, _rehost_instances(hosted_instances, host_wall, preceding_walls)
Rehost ==
    /\ pc = "rehost"
    /\ \E o \in RehostOracles(loc.hosted, loc.preceding) :
          /\ faults + RehostFaults(o) <= MaxFaults
          /\ faults' = faults + RehostFaults(o)
          /\ LET r == rehost_instances(1, loc.hosted, loc.host_wall, loc.preceding,
                                       doc, nextId, o)
             IN /\ doc' = r.doc
                /\ nextId' = r.nextId
    /\ pc' = "join_parts"
    /\ UNCHANGED << calc, tx, snap, sigCache, joinCache, pending, batch, bi, results, ret, loc,
                    call, nelems, dupCalls >>

\* _breakup_wall, the joins between every two created walls of the source
JoinParts ==
    /\ pc = "join_parts"
    /\ \E h \in JoinOracles(FALSE) :
          /\ Len(loc.created) < 2 => h.join_ok
          /\ faults + JoinFaults(h) <= MaxFaults
          /\ faults' = faults + JoinFaults(h)
          /\ doc' = [doc EXCEPT
                       !.joins = join_parts_from(1, 2, loc.created, doc, doc.joins, h)]
          /\ tx' = IF JoinFaults(h) > 0 THEN join_refusal_outcome(tx) ELSE tx
    /\ pc' = "layer_joins"
    /\ UNCHANGED << calc, nextId, snap, sigCache, joinCache, pending, batch, bi, results,
                    ret, loc, call, nelems, dupCalls >>

\* _breakup_wall, _handle_layer_joins(wall_id, wall_type_id, produced_layers,
\* joined_wall_ids)
LayerJoins ==
    /\ pc = "layer_joins"
    /\ \E h \in JoinOracles(TRUE) :
          /\ faults + JoinFaults(h) <= MaxFaults
          /\ LET r == handle_layer_joins(loc.wall, loc.wall_type_id, loc.produced,
                                         loc.joined, doc, joinCache, pending, h)
             IN /\ (r.joins = doc.joins /\ JoinFaults(h) > 0) => FALSE
                /\ doc' = [doc EXCEPT !.joins = r.joins]
                /\ joinCache' = r.cache
                /\ pending' = r.pending
          /\ faults' = faults + JoinFaults(h)
          /\ tx' = IF JoinFaults(h) > 0 THEN join_refusal_outcome(tx) ELSE tx
    /\ pc' = "delete"
    /\ UNCHANGED << calc, nextId, snap, sigCache, batch, bi, results, ret, loc, call,
                    nelems, dupCalls >>

\* _breakup_wall, doc.Delete(wall.Id): on a refusal the transaction is rolled back
DeleteSource ==
    /\ pc = "delete"
    /\ \/ /\ doc' = DeleteWall(doc, loc.wall)
          /\ pc' = "commit"
          /\ UNCHANGED << tx, ret, faults >>
       \/ /\ MayFail
          /\ faults' = faults + 1
          /\ doc' = delete_failed_outcome(doc, snap).doc
          /\ tx' = delete_failed_outcome(doc, snap).tx
          /\ ret' = handle_failure("delete_failed", "error", loc.wall)
          /\ pc' = "returned"
    /\ UNCHANGED << calc, nextId, snap, sigCache, joinCache, pending, batch, bi, results, loc,
                    call, nelems, dupCalls >>

\* _breakup_wall, t.Commit() and the success result
Commit ==
    /\ pc = "commit"
    /\ tx' = "committed"
    /\ ret' = [status |-> "success", created |-> Len(loc.created),
               message |-> "success", wall_id |-> loc.wall]
    /\ pc' = "returned"
    /\ UNCHANGED << calc, doc, nextId, snap, sigCache, joinCache, pending, batch, bi, results,
                    loc, call, nelems, faults, dupCalls >>

\* _breakup_wall, the handler of an exception nothing inside the transaction
\* catches (an unguarded host call in the layer loop, in _rehost_instances, in
\* the joins of the created walls, or t.Commit())
Unexpected ==
    /\ \/ pc = "layers" /\ loc.li <= Len(loc.layer_data)
       \/ pc \in {"rehost", "join_parts", "commit"}
    /\ MayFail
    /\ faults' = faults + 1
    /\ doc' = TxRollBack(doc, snap)
    /\ tx' = "rolledback"
    /\ ret' = handle_failure("unexpected", "error", loc.wall)
    /\ pc' = "returned"
    /\ UNCHANGED << calc, nextId, snap, sigCache, joinCache, pending, batch, bi, results, loc,
                    call, nelems, dupCalls >>

\* main, the body of the loop after _breakup_wall returned: the result is
\* appended, and a cancelled result ends the loop
Returned ==
    /\ pc = "returned"
    /\ results' = Append(results, ret)
    /\ pc' = after_result(ret.status)
    /\ ret' = NoRet
    /\ loc' = NoLoc
    /\ call' = NoCall
    /\ tx' = "none"
    /\ snap' = InitDoc
    /\ nelems' = nelems + 1
    /\ UNCHANGED << calc, doc, nextId, sigCache, joinCache, pending, batch, bi,
                    faults, dupCalls >>

RECURSIVE SumCreated(_, _)
\* sum(item.get('created', 0) for item in items[1..n])
SumCreated(items, n) ==
    IF n = 0 THEN 0 ELSE SumCreated(items, n - 1) + items[n].created

\* a summary that counts only the results with status error as failures
summary_errors_only(items) ==
    LET success_results == SelectSeq(items, LAMBDA r : r.status = "success")
        failure_results == SelectSeq(items, LAMBDA r : r.status = "error")
    IN [processed |-> Len(items), success |-> Len(success_results),
        total_created |-> SumCreated(success_results, Len(success_results)),
        failure |-> Len(failure_results)]

\* main, the numbers of the summary shown after a batch of several walls
summary(items) ==
    LET success_results == SelectSeq(items, LAMBDA r : r.status = "success")
        failure_results == SelectSeq(items, LAMBDA r : r.status # "success")
    IN [processed |-> Len(items), success |-> Len(success_results),
        total_created |-> SumCreated(success_results, Len(success_results)),
        failure |-> Len(failure_results)]

\* main, the summary after the loop; main returns
Summary ==
    /\ pc = "summary"
    /\ pc' = "idle"
    /\ batch' = << >>
    /\ bi' = 0
    /\ results' = << >>
    /\ dupCalls' = EmptyMap
    /\ UNCHANGED << calc, doc, nextId, tx, snap, sigCache, joinCache, pending, ret, loc, call,
                    nelems, faults >>

Next ==
    \/ Main
    \/ MainLoop
    \/ Collect
    \/ SelectHost
    \/ BuildContext
    \/ CreateLayer
    \/ AfterLayers
    \/ Rehost
    \/ JoinParts
    \/ LayerJoins
    \/ DeleteSource
    \/ Commit
    \/ Unexpected
    \/ Returned
    \/ Summary

Spec == Init /\ [][Next]_vars

\* -------------------------------------------- helpers called on their own
\* Each helper below is a function of its arguments and of what the host
\* answers.  HelperSpec starts from one set of arguments and applies the helper
\* to them; calc keeps the arguments next to the result.

MaxExtent == 5       \* widths and core bounds range over 0, 50, .. 50 * MaxExtent
MaxLayers == 3       \* layers of an assembly handed to _structure_layers_data
MaxCurve == 30       \* length of the longest curve handed to _shrink_curve
MaxShrink == 40      \* largest shrink distance handed to _shrink_curve
MaxInstances == 2    \* instances handed to one call of _rehost_instances
MaxSheetRows == 3    \* rows of the data area of a worksheet, from the data start row
MaxRecords == 2      \* records of a source handed to extract_section3_rows

MIN_LENGTH == 10     \* min_length = 1e-6, the default of _shrink_curve

Extents == {50 * k : k \in 0..MaxExtent}

\* WallLocationLine values, and a value the enumeration does not know
LocationLines ==
    {"WallCenterline", "CoreCenterline", "FinishFaceExterior", "FinishFaceInterior",
     "CoreFaceExterior", "CoreFaceInterior", "Unrecognized"}

\* arguments of _reference_offset
ReferenceOffsetArgs ==
    {a \in [op : {"args"}, fn : {"reference_offset"}, location_line : LocationLines,
            total_width : Extents, core_start : Extents, core_end : Extents] :
        a.core_start <= a.core_end /\ a.core_end <= a.total_width}

\* compound structures: up to MaxLayers layers, the core either absent
\* (first and last core index -1) or a span of consecutive layers
Structures ==
    {[layers |-> [i \in 1..n |-> Layer(w[i], 1, "Finish1")],
      first_core |-> c[1], last_core |-> c[2]] :
        n \in 0..MaxLayers, w \in [1..MaxLayers -> {0, 50, 100}],
        c \in {<<-1, -1>>} \cup {<<a, b>> : a, b \in 0..(MaxLayers - 1)}}

StructureArgs ==
    {[op |-> "args", fn |-> "structure_layers_data", structure |-> st] :
        st \in {x \in Structures :
                   /\ x.first_core <= x.last_core
                   /\ x.last_core < Len(x.layers)}}

\* the curves are the location lines of straight walls: a curve is its length,
\* and the segment between its end points is as long as the curve
Curves == {[length |-> l] : l \in (MIN_LENGTH + 1)..MaxCurve}

ShrinkArgs ==
    {[op |-> "args", fn |-> "shrink_curve", curve |-> c, shrink_distance |-> d] :
        c \in Curves, d \in 0..MaxShrink}

\* what the host may answer to CreateTrimmedCurve and to Line.CreateBound:
\* the curve asked for, or an exception
CurveOracles == [trimmed_ok : BOOLEAN, line_ok : BOOLEAN]

Min(a, b) == IF a <= b THEN a ELSE b
Max(a, b) == IF a >= b THEN a ELSE b

\* a shrink that is applied as requested
clamp_shrink_none(shrink, max_shrink) == shrink

\* _shrink_curve, `shrink = min(shrink, max_shrink)`
clamp_shrink(shrink, max_shrink) == Min(shrink, max_shrink)

\* _shrink_curve(curve, shrink_distance, min_length): the curve returned.
\* param_delta is half_shrink / length of the parameter range, so the trimmed
\* curve is length - shrink long and new_end > new_start means shrink < length.
shrink_curve(curve, shrink_distance, min_length, h) ==
    LET requested == Abs(shrink_distance)
        length == curve.length
        max_shrink == Max(0, length - min_length)
        shrink == clamp_shrink(requested, max_shrink)
    IN IF requested <= min_length THEN curve
       ELSE IF length <= min_length THEN curve
       ELSE IF max_shrink <= min_length THEN curve
       ELSE IF shrink < length /\ h.trimmed_ok THEN [length |-> length - shrink]
       ELSE IF h.line_ok THEN [length |-> Abs(length - shrink)]
       ELSE curve

MAX_SUFFIX == 50     \* `if suffix > 50` of _clone_wall_type_for_layer

\* a retry loop that never gives up
suffix_exhausted_never(suffix) == FALSE

\* _clone_wall_type_for_layer, `if suffix > 50: return None`
suffix_exhausted(suffix) == suffix > MAX_SUFFIX

\* _clone_wall_type_for_layer at `suffix = 1`: the first name is the base label
\* (suffix 1), no Duplicate attempted yet
CloneArgs ==
    {[op |-> "running", fn |-> "clone_wall_type_for_layer", index |-> i,
      suffix |-> 1, attempts |-> 0, new_type |-> "pending"] : i \in 1..MaxLayers}

\* the model after the layer loop for wall 1: walls 201 and 202 stand for its
\* first two layers, and wall 1 hosts n instances, 61 .. 60 + n
HostedDoc(n) ==
    [InitDoc EXCEPT
       !.walls = InitDoc.walls
                   @@ (201 :> [type |-> 105, location_line |-> "WallCenterline",
                               has_curve |-> TRUE, src |-> 1, index |-> 1])
                   @@ (202 :> [type |-> 105, location_line |-> "WallCenterline",
                               has_curve |-> TRUE, src |-> 1, index |-> 2]),
       !.fixtures = [f \in {60 + i : i \in 1..n} |-> [host |-> 1, origin |-> f]]]

\* arguments of _rehost_instances: the instances of wall 1, the host wall 202
\* with the wall 201 before it, or the host wall 201 with no wall before it
RehostArgs ==
    {[op |-> "args", fn |-> "rehost_instances",
      instances |-> [i \in 1..n |-> 60 + i],
      new_host_wall |-> h[1], other_walls |-> h[2], d |-> HostedDoc(n), new_id |-> 203] :
        n \in 0..MaxInstances, h \in {<<202, <<201>> >>, <<201, << >> >>}}

\* _rehost_instances applied to its arguments, the host doing for every
\* instance one of the things it may do
CallRehostInstances ==
    /\ calc.op = "args" /\ calc.fn = "rehost_instances"
    /\ \E os \in RehostOracles(calc.instances, calc.other_walls) :
          calc' = [op |-> "done", fn |-> calc.fn, args |-> calc, host |-> os,
                   out |-> rehost_instances(1, calc.instances, calc.new_host_wall,
                                            calc.other_walls, calc.d, calc.new_id, os)]
    /\ UNCHANGED << doc, nextId, tx, snap, sigCache, joinCache, pending, pc, batch, bi,
                    results, ret, loc, call, nelems, faults, dupCalls >>

\* ---- _build_wall_context, the height of the walls to create
\* Heights are in units of 1/128 ft.  An optional number is << >> for None (or
\* a read that raises) and <<v>> for the value v.
MaxHeight == 6       \* largest height a parameter or the geometry yields
REVIT_MIN_DIMENSION == 4     \* _REVIT_MIN_DIMENSION = 1.0 / 32.0 ft

OptionalHeights(low) == {<< >>} \cup {<<v>> : v \in low..MaxHeight}

\* WALL_USER_HEIGHT_PARAM of the wall: absent, or a parameter with HasValue
\* (true, false, or raising) and the answer of AsDouble
HeightParams ==
    {[present |-> FALSE, has_value |-> "T", value |-> << >>]}
      \cup [present : {TRUE}, has_value : {"T", "F", "raises"}, value : OptionalHeights(-1)]

\* the bounding box height and the rise of the location curve, each absent or read
HeightArgs ==
    [op : {"args"}, fn : {"wall_height"}, height_param : HeightParams,
     bbox_height : OptionalHeights(0), curve_rise : OptionalHeights(0)]

\* _compute_wall_height_from_geometry: max of the positive heights, << >> for None
compute_wall_height_from_geometry(bbox_height, curve_rise) ==
    LET valid_heights == {h \in Range(bbox_height) \cup Range(curve_rise) : h > 0}
    IN IF valid_heights = {} THEN << >>
       ELSE <<CHOOSE h \in valid_heights : \A g \in valid_heights : g <= h>>

\* a height that is used as it was found
keep_height(height) == height

\* _build_wall_context, `elif height < _REVIT_MIN_DIMENSION`
raise_to_minimum(height) ==
    IF height < REVIT_MIN_DIMENSION THEN REVIT_MIN_DIMENSION ELSE height

\* _build_wall_context, context['height']
wall_height(height_param, bbox_height, curve_rise) ==
    LET candidate_height == IF height_param.present /\ height_param.has_value # "F"
                            THEN height_param.value ELSE << >>
        authored == IF candidate_height # << >> /\ candidate_height[1] > 0
                    THEN candidate_height ELSE << >>
        geometry_height == compute_wall_height_from_geometry(bbox_height, curve_rise)
        height == IF authored # << >> THEN authored
                  ELSE IF geometry_height # << >> /\ geometry_height[1] > 0
                  THEN geometry_height
                  ELSE << >>
    IN IF height = << >> \/ height[1] <= 0 THEN REVIT_MIN_DIMENSION
       ELSE raise_to_minimum(height[1])

\* the height of _build_wall_context for one wall
CallWallHeight ==
    /\ calc.op = "args" /\ calc.fn = "wall_height"
    /\ calc' = [op |-> "done", fn |-> calc.fn, args |-> calc,
                out |-> wall_height(calc.height_param, calc.bbox_height, calc.curve_rise)]
    /\ UNCHANGED << doc, nextId, tx, snap, sigCache, joinCache, pending, pc, batch, bi,
                    results, ret, loc, call, nelems, faults, dupCalls >>

\* ---- _breakup_wall, the calls on its Transaction t between t.Start() and the
\* exit.  What happens in between is an outcome: body is how the code from
\* _ensure_join_controls to _handle_layer_joins ends (no wall created, an
\* exception nothing inside catches, or walls created), delete_ok whether
\* doc.Delete(wall.Id) is accepted, commit_ok whether t.Commit() returns,
\* reported whether _handle_failure (forms.alert or the logger) returns.
TransactionArgs ==
    [op : {"args"}, fn : {"breakup_wall_transaction"},
     body : {"none_created", "raises", "created"},
     delete_ok : BOOLEAN, commit_ok : BOOLEAN, reported : BOOLEAN]

\* the transaction after t.Start()
Started == [status |-> "open", ends |-> 0, on_ended |-> FALSE]

\* t.RollBack() on a transaction in state t: a started transaction is ended,
\* on one that is ended already the call is noted in on_ended
RollBackCall(t) ==
    IF t.status = "open"
    THEN [t EXCEPT !.status = "rolledback", !.ends = @ + 1]
    ELSE [t EXCEPT !.on_ended = TRUE]

\* t.Commit(); a Commit that raises leaves the transaction started
CommitCall(t, commit_ok) ==
    IF t.status # "open" THEN [t EXCEPT !.on_ended = TRUE]
    ELSE IF commit_ok THEN [t EXCEPT !.status = "committed", !.ends = @ + 1]
    ELSE t

\* `except Exception as exc:` of _breakup_wall: t.RollBack() and the failure
\* result; exit is how the function is left
except_handler(t, reported) ==
    [t |-> RollBackCall(t), exit |-> IF reported THEN "return" ELSE "raise"]

\* `t.RollBack(); return _handle_failure(..)` inside the try block: an
\* exception of _handle_failure is caught by the handler of the try block
rollback_and_report(t, reported) ==
    IF reported THEN [t |-> RollBackCall(t), exit |-> "return"]
    ELSE except_handler(RollBackCall(t), reported)

\* _breakup_wall from t.Start() to its exit: the transaction and the exit
breakup_wall_transaction(body, delete_ok, commit_ok, reported) ==
    CASE body = "raises" -> except_handler(Started, reported)
      [] body = "none_created" -> rollback_and_report(Started, reported)
      [] OTHER ->
           IF ~delete_ok THEN rollback_and_report(Started, reported)
           ELSE IF commit_ok THEN [t |-> CommitCall(Started, TRUE), exit |-> "return"]
           ELSE except_handler(CommitCall(Started, FALSE), reported)

\* the transaction of one call of _breakup_wall, whatever happens inside
CallBreakupWallTransaction ==
    /\ calc.op = "args" /\ calc.fn = "breakup_wall_transaction"
    /\ calc' = [op |-> "done", fn |-> calc.fn, args |-> calc,
                out |-> breakup_wall_transaction(calc.body, calc.delete_ok,
                                                 calc.commit_ok, calc.reported)]
    /\ UNCHANGED << doc, nextId, tx, snap, sigCache, joinCache, pending, pc, batch, bi,
                    results, ret, loc, call, nelems, faults, dupCalls >>

\* ---- section3_template.py
\* A worksheet from its data start row on: row r has the cell of the numbering
\* column and the cells of the columns of column_map (two of them here).  A cell
\* is "None", "old" (a value of an earlier filling), "footer" (a string that
\* holds one of _STOP_KEYWORDS) or "new" / a number (written by this filling).
SheetRow(num, c1, c2) == [num |-> num, cells |-> <<c1, c2>>]

Worksheets ==
    [1..MaxSheetRows -> {SheetRow(num, c1, c2) : num \in {"None", "old"},
                                                 c1 \in {"None", "old", "footer"},
                                                 c2 \in {"None", "old"}}]

\* arguments of fill_section3_template: the worksheet of the template, the
\* number of rows to write, whether a numbering column was resolved
FillArgs ==
    [op : {"args"}, fn : {"fill_section3_template"}, worksheet : Worksheets,
     rows : 0..MaxSheetRows, numbering : BOOLEAN]

\* _is_empty
is_empty(value) == value = "None"

\* _is_footer_row
is_footer_row(values) == \E i \in DOMAIN values : values[i] = "footer"

\* worksheet.max_row: the last row that holds a value, 1 for an empty sheet
max_row(worksheet) ==
    LET used == {r \in DOMAIN worksheet :
                    worksheet[r].num # "None"
                    \/ \E i \in DOMAIN worksheet[r].cells : worksheet[r].cells[i] # "None"}
    IN IF used = {} THEN 1 ELSE CHOOSE r \in used : \A q \in used : q <= r

RECURSIVE count_existing_rows(_, _)
\* _count_existing_rows from row_index on: the rows up to the first footer row or
\* empty row, not beyond max_row
count_existing_rows(worksheet, row_index) ==
    IF row_index > max_row(worksheet) THEN 0
    ELSE IF is_footer_row(worksheet[row_index].cells) THEN 0
    ELSE IF \A i \in DOMAIN worksheet[row_index].cells :
               is_empty(worksheet[row_index].cells[i]) THEN 0
    ELSE 1 + count_existing_rows(worksheet, row_index + 1)

\* _clear_rows: count rows from the data start row
clear_rows(worksheet, count, numbering) ==
    [r \in DOMAIN worksheet |->
        IF r > count THEN worksheet[r]
        ELSE [num |-> IF numbering THEN "None" ELSE worksheet[r].num,
              cells |-> [i \in DOMAIN worksheet[r].cells |-> "None"]]]

\* fill_section3_template from _count_existing_rows on: the worksheet saved
fill_section3_template(worksheet, rows, numbering) ==
    LET existing_rows == count_existing_rows(worksheet, 1)
        m == IF existing_rows >= rows THEN existing_rows ELSE rows
        rows_to_clear == IF m = 0 THEN 1 ELSE m
        cleared == clear_rows(worksheet, rows_to_clear, numbering)
    IN [r \in DOMAIN cleared |->
          IF r > rows THEN cleared[r]
          ELSE [num |-> IF numbering THEN r ELSE cleared[r].num,
                cells |-> [i \in DOMAIN cleared[r].cells |-> "new"]]]

\* fill_section3_template applied to a template
CallFillTemplate ==
    /\ calc.op = "args" /\ calc.fn = "fill_section3_template"
    /\ calc' = [op |-> "done", fn |-> calc.fn, args |-> calc,
                out |-> fill_section3_template(calc.worksheet, calc.rows, calc.numbering)]
    /\ UNCHANGED << doc, nextId, tx, snap, sigCache, joinCache, pending, pc, batch, bi,
                    results, ret, loc, call, nelems, faults, dupCalls >>

\* ---- the join reconciler applied to the layer entries of two decomposed walls
\* Assemblies of the walls: finish and structure of equal width in both orders,
\* and the three-layer assembly of type 101.
JoinTypes ==
    (111 :> [layers |-> << Layer(200000, 1, "Finish1"), Layer(200000, 2, "Structure") >>,
             first_core |-> 1, last_core |-> 1])
 @@ (112 :> [layers |-> << Layer(200000, 2, "Structure"), Layer(200000, 1, "Finish1") >>,
             first_core |-> 0, last_core |-> 0])
 @@ (113 :> InitTypes[101])

\* the layer entry _handle_layer_joins builds for a wall of type wall_type_id
\* drawn on location_line, its layers created as walls first_id, first_id + 1, ..
produced_entry(wall_type_id, location_line, first_id) ==
    LET sld == structure_layers_data(JoinTypes[wall_type_id])
        layer_data == usable_layers(sld.data)
        ref == reference_offset(location_line, sld.total_width, sld.core_start, sld.core_end)
    IN [wall_type_id |-> wall_type_id,
        layers |-> [k \in DOMAIN layer_data |->
                      [index |-> layer_data[k].index,
                       function |-> layer_data[k].function,
                       width |-> layer_data[k].width,
                       material_id |-> layer_data[k].material_id,
                       wall_id |-> first_id + k - 1,
                       offset |-> (layer_data[k].start + layer_data[k].end) - ref,
                       reference_offset |-> ref]]]

\* the model of the host holding the walls of both entries, none joined
JoinDoc(entry_a, entry_b) ==
    [InitDoc EXCEPT
       !.walls = [x \in {entry_a.layers[k].wall_id : k \in DOMAIN entry_a.layers}
                         \cup {entry_b.layers[k].wall_id : k \in DOMAIN entry_b.layers} |->
                     [type |-> 105, location_line |-> "WallCenterline", has_curve |-> TRUE,
                      src |-> 1, index |-> 1]],
       !.joins = {}]

AttemptArgs ==
    {[op |-> "args", fn |-> "attempt_layer_joins",
      entry_a |-> produced_entry(t[1], l[1], 301),
      entry_b |-> produced_entry(t[2], l[2], 311),
      join_meta |-> [self_cuts |-> c, allow_mismatch |-> m]] :
        t \in (DOMAIN JoinTypes) \X (DOMAIN JoinTypes),
        l \in {"WallCenterline", "FinishFaceExterior"} \X {"WallCenterline", "FinishFaceExterior"},
        c \in {"T", "F", "N"}, m \in BOOLEAN}

\* the model of the host holding wall 311 of type wall_type_id, not decomposed
NeighbourDoc(wall_type_id, location_line) ==
    [InitDoc EXCEPT
       !.types = JoinTypes,
       !.walls = (311 :> SrcWall(wall_type_id, location_line, TRUE)),
       !.fixtures = EmptyMap,
       !.joins = {}]

\* arguments of _attempt_layer_joins for a decomposed wall and a neighbour of
\* another type that is not decomposed: entry_b is the entry
\* _collect_joined_wall_ids synthesizes for the neighbour (allow_mismatch set)
SynthAttemptArgs ==
    {[op |-> "args", fn |-> "attempt_layer_joins",
      entry_a |-> produced_entry(t[1], l[1], 301),
      entry_b |-> build_join_entry_from_existing_wall(
                      NeighbourDoc(t[2], l[2]), 311,
                      {layer_signature_for_join(produced_entry(t[1], l[1], 301).layers[k]) :
                          k \in DOMAIN produced_entry(t[1], l[1], 301).layers},
                      t[1]),
      join_meta |-> [self_cuts |-> c, allow_mismatch |-> TRUE]] :
        t \in {x \in (DOMAIN JoinTypes) \X (DOMAIN JoinTypes) : x[1] # x[2]},
        l \in {"WallCenterline", "FinishFaceExterior"} \X {"WallCenterline", "FinishFaceExterior"},
        c \in {"T", "F"}}

\* _attempt_layer_joins applied to its arguments, the host joining or refusing
CallAttemptLayerJoins ==
    /\ calc.op = "args" /\ calc.fn = "attempt_layer_joins"
    /\ \E h \in JoinOracles(TRUE) :
          calc' = [op |-> "done", fn |-> calc.fn, args |-> calc, host |-> h,
                   out |-> attempt_layer_joins(calc.entry_a, calc.entry_b, calc.join_meta,
                                               JoinDoc(calc.entry_a, calc.entry_b), {}, h)]
    /\ UNCHANGED << doc, nextId, tx, snap, sigCache, joinCache, pending, pc, batch, bi,
                    results, ret, loc, call, nelems, faults, dupCalls >>

\* ---- _breakup_wall and _rehost_instances, the openings for one re-created
\* instance: the walls 201, 202, .. produced for the usable layers of a wall
\* type, the layer the operator selected (0 for none), the new instance 71
OpeningArgs ==
    {[op |-> "args", fn |-> "place_openings",
      produced_layers |-> [k \in DOMAIN usable_layers(structure_layers_data(JoinTypes[t]).data) |->
                             [wall |-> 200 + k,
                              info |-> usable_layers(structure_layers_data(JoinTypes[t]).data)[k]]],
      selected_layer_index |-> sel, new_inst |-> 71] :
        t \in DOMAIN JoinTypes, sel \in 0..3}

\* the host wall is chosen, the walls before it are collected, and the openings
\* for the instance are attempted in them
CallPlaceOpenings ==
    /\ calc.op = "args" /\ calc.fn = "place_openings"
    /\ LET host_index == host_record(calc.produced_layers, calc.selected_layer_index)
           host_wall == calc.produced_layers[host_index].wall
           other_walls == preceding_walls(calc.produced_layers, host_index)
       IN \E cs \in [DOMAIN other_walls -> {"void", "manual", "none"}] :
             calc' = [op |-> "done", fn |-> calc.fn, args |-> calc, host |-> cs,
                      out |-> [host_wall |-> host_wall, other_walls |-> other_walls,
                               result |-> opening_attempts(calc.new_inst, host_wall,
                                                           other_walls, cs)]]
    /\ UNCHANGED << doc, nextId, tx, snap, sigCache, joinCache, pending, pc, batch, bi,
                    results, ret, loc, call, nelems, faults, dupCalls >>

\* ---- _enqueue_pending_join called again and again on one queue
MaxEnqueues == 3     \* calls of _enqueue_pending_join in one sequence

\* entries handed to _enqueue_pending_join: None ({}), an entry without layers,
\* the entry of a decomposed wall, the entry of the same walls with other
\* offsets, and the entry of another decomposed wall
EnqueuedEntries ==
    {NoEntry, [wall_type_id |-> 111, layers |-> << >>],
     produced_entry(111, "WallCenterline", 301),
     produced_entry(111, "FinishFaceExterior", 301),
     produced_entry(111, "WallCenterline", 311)}

\* target ids: 0 stands for None
EnqueueTargets == {0, 1, 2}

EnqueueMetas == {[self_cuts |-> c, allow_mismatch |-> FALSE] : c \in {"T", "F"}}

EnqueueArgs ==
    {[op |-> "running", fn |-> "enqueue_pending_join", queue |-> EmptyMap, calls |-> 0,
      last |-> [target_wall_id |-> 0, entry |-> NoEntry,
                meta |-> [self_cuts |-> "T", allow_mismatch |-> FALSE]]]}

\* one more call of _enqueue_pending_join on the queue the calls before left
CallEnqueuePendingJoin ==
    /\ calc.op = "running" /\ calc.fn = "enqueue_pending_join"
    /\ calc.calls < MaxEnqueues
    /\ \E target_wall_id \in EnqueueTargets, entry \in EnqueuedEntries, meta \in EnqueueMetas :
          calc' = [calc EXCEPT
                     !.queue = enqueue_pending_join(calc.queue, target_wall_id, entry, meta),
                     !.calls = @ + 1,
                     !.last = [target_wall_id |-> target_wall_id, entry |-> entry,
                               meta |-> meta]]
    /\ UNCHANGED << doc, nextId, tx, snap, sigCache, joinCache, pending, pc, batch, bi,
                    results, ret, loc, call, nelems, faults, dupCalls >>

\* ---- _breakup_wall, the curves the layers of a wall are placed on
\* assemblies of up to MaxLayers layers: negligible layers (0 and exactly the
\* epsilon) and layers about as wide as the curves are long
PlacedStructures ==
    {[layers |-> [i \in 1..n |-> Layer(w[i], 1, "Finish1")], first_core |-> -1, last_core |-> -1] :
        n \in 1..MaxLayers, w \in [1..MaxLayers -> {0, WIDTH_EPS, 2 * WIDTH_EPS}]}

PlaceArgs ==
    {[op |-> "args", fn |-> "place_layers", structure |-> st, base_curve |-> c] :
        st \in PlacedStructures, c \in Curves}

\* a placement that shortens the curve of every layer
shrink_distance_all(layer_info) == layer_info.width

\* shrink_distance of the layer loop: 0.0 for the first and the last layer
shrink_distance(layer_info) ==
    IF layer_info.is_first \/ layer_info.is_last THEN 0 ELSE layer_info.width

\* the layer loop of _breakup_wall over the filtered layer_data: for every
\* layer its adjusted_curve.  hs[k] is what the host answers for layer k.
place_layers(structure, base_curve, hs) ==
    LET layer_data == usable_layers(structure_layers_data(structure).data)
    IN [k \in DOMAIN layer_data |->
           [info |-> layer_data[k],
            adjusted_curve |-> shrink_curve(base_curve, shrink_distance(layer_data[k]),
                                            MIN_LENGTH, hs[k])]]

\* the host is asked to trim only for a layer that is shrunk
PlaceOracles(structure) ==
    LET layer_data == usable_layers(structure_layers_data(structure).data)
    IN {hs \in [DOMAIN layer_data -> CurveOracles] :
           \A k \in DOMAIN layer_data :
              (layer_data[k].is_first \/ layer_data[k].is_last) =>
                 (hs[k].trimmed_ok /\ hs[k].line_ok)}

\* the layer loop applied to a wall type and the curve of a wall
CallPlaceLayers ==
    /\ calc.op = "args" /\ calc.fn = "place_layers"
    /\ \E hs \in PlaceOracles(calc.structure) :
          calc' = [op |-> "done", fn |-> calc.fn, args |-> calc, host |-> hs,
                   out |-> place_layers(calc.structure, calc.base_curve, hs)]
    /\ UNCHANGED << doc, nextId, tx, snap, sigCache, joinCache, pending, pc, batch, bi,
                    results, ret, loc, call, nelems, faults, dupCalls >>

\* ---- section3_parser.py: records of a tabular source to section 3 rows ----
\* Three of the eight fields are modelled: one text field (floor) and the two
\* areas.  The headers are four of the module's synonyms, transliterated:
\* "Etazh" and "Uroven" both name the floor, "Ploshchad" the area and
\* "PloshchadChasti" the part area.  A record is a dictionary; the value
\* "absent" under a header says that the record has no such key.  Cell values
\* are "" (an empty string), a text, a number written with a decimal comma,
\* or the float nan.
SECTION3_FIELDS == << "floor", "area", "part_area" >>
NUMERIC_FIELDS == { "area", "part_area" }
Headers == << "Etazh", "Uroven", "Ploshchad", "PloshchadChasti" >>

SourceRecords == [Etazh : {"absent", "", "2"}, Uroven : {"absent", "2"}, Ploshchad : {"absent", "18,25", "nan"}, PloshchadChasti : {"absent", "", "7,5"}]

Sources == UNION { [1..n -> SourceRecords] : n \in 1..MaxRecords }

ParserArgs == [op : {"args"}, fn : {"extract_section3_rows"}, source : Sources]

\* record.keys(), in the order of the columns
keys(record) == SelectSeq(Headers, LAMBDA header : record[header] # "absent")

\* record.get(header): None for a key the record does not have
get(record, header) == IF record[header] = "absent" THEN "None" ELSE record[header]

\* _match_field over the normalised header: all four are in HEADER_LOOKUP
match_field(header) ==
    CASE header \in {"Etazh", "Uroven"} -> [field |-> "floor", priority |-> 0]
      [] header = "Ploshchad" -> [field |-> "area", priority |-> 0]
      [] header = "PloshchadChasti" -> [field |-> "part_area", priority |-> 0]
      [] OTHER -> [field |-> "None", priority |-> 0]

RECURSIVE all_headers(_)
all_headers(records) == IF records = << >> THEN << >> ELSE keys(Head(records)) \o all_headers(Tail(records))

\* _build_header_map: one header per field, the first of the best priority
RECURSIVE build_header_map(_, _, _)
build_header_map(headers, result, priorities) ==
    IF headers = << >> THEN result
    ELSE LET header == Head(headers)
             match == match_field(header)
         IN IF match.field = "None"
               THEN build_header_map(Tail(headers), result, priorities)
            ELSE IF match.field \in DOMAIN result /\ priorities[match.field] <= match.priority
               THEN build_header_map(Tail(headers), result, priorities)
            ELSE build_header_map(Tail(headers), Put(result, match.field, header),
                                  Put(priorities, match.field, match.priority))

\* _clean_string: None for None and for a blank string, else the stripped text
clean_string(value) == IF value \in {"None", ""} THEN "None" ELSE value

\* _parse_number: the float of the first decimal number in the text
parse_number(value) ==
    CASE value = "18,25" -> "18.25"
      [] value = "7,5" -> "7.5"
      [] value = "2" -> "2.0"
      [] value = "nan" -> "nan"
      [] OTHER -> "None"

isnan(parsed) == parsed = "nan"

\* the value _extract_row reads for a field
field_value(record, header_map, field) ==
    IF field \in DOMAIN header_map /\ record[header_map[field]] # "absent"
       THEN get(record, header_map[field])
       ELSE "None"

\* the normalised value of a field
field_cell(record, header_map, field) ==
    LET value == field_value(record, header_map, field)
    IN IF field \in NUMERIC_FIELDS
          THEN IF parse_number(value) # "None" /\ ~isnan(parse_number(value))
                  THEN parse_number(value) ELSE "None"
          ELSE clean_string(value)

\* _extract_row: << >> stands for None, << row >> for a row
extract_row(record, header_map) ==
    LET row == [field \in {SECTION3_FIELDS[i] : i \in DOMAIN SECTION3_FIELDS} |-> field_cell(record, header_map, field)]
        meaningful == \E field \in DOMAIN row : row[field] # "None"
    IN IF ~meaningful THEN << >>
       ELSE IF row["part_area"] = "None" /\ row["area"] # "None"
          THEN << [row EXCEPT !["part_area"] = row["area"]] >>
       ELSE << row >>

RECURSIVE extract_rows_from(_, _)
extract_rows_from(records, header_map) ==
    IF records = << >> THEN << >>
    ELSE extract_row(Head(records), header_map) \o extract_rows_from(Tail(records), header_map)

extract_section3_rows(source) ==
    LET header_map == build_header_map(all_headers(source), EmptyMap, EmptyMap)
    IN IF DOMAIN header_map = {} THEN << >> ELSE extract_rows_from(source, header_map)

\* extract_section3_rows applied to its argument
CallExtractRows ==
    /\ calc.op = "args" /\ calc.fn = "extract_section3_rows"
    /\ calc' = [op |-> "done", fn |-> calc.fn, args |-> calc,
                out |-> extract_section3_rows(calc.source)]
    /\ UNCHANGED << doc, nextId, tx, snap, sigCache, joinCache, pending, pc, batch, bi,
                    results, ret, loc, call, nelems, faults, dupCalls >>

\* _reference_offset applied to its arguments
CallReferenceOffset ==
    /\ calc.op = "args" /\ calc.fn = "reference_offset"
    /\ calc' = [op |-> "done", fn |-> calc.fn, args |-> calc,
                out |-> reference_offset(calc.location_line, calc.total_width,
                                         calc.core_start, calc.core_end)]
    /\ UNCHANGED << doc, nextId, tx, snap, sigCache, joinCache, pending, pc, batch, bi,
                    results, ret, loc, call, nelems, faults, dupCalls >>

\* _structure_layers_data applied to a compound structure
CallStructureLayersData ==
    /\ calc.op = "args" /\ calc.fn = "structure_layers_data"
    /\ calc' = [op |-> "done", fn |-> calc.fn, args |-> calc,
                out |-> structure_layers_data(calc.structure)]
    /\ UNCHANGED << doc, nextId, tx, snap, sigCache, joinCache, pending, pc, batch, bi,
                    results, ret, loc, call, nelems, faults, dupCalls >>

\* _shrink_curve applied to a curve and a shrink distance
CallShrinkCurve ==
    /\ calc.op = "args" /\ calc.fn = "shrink_curve"
    /\ \E h \in CurveOracles :
          calc' = [op |-> "done", fn |-> calc.fn, args |-> calc,
                   out |-> shrink_curve(calc.curve, calc.shrink_distance, MIN_LENGTH, h)]
    /\ UNCHANGED << doc, nextId, tx, snap, sigCache, joinCache, pending, pc, batch, bi,
                    results, ret, loc, call, nelems, faults, dupCalls >>

\* _clone_wall_type_for_layer, one iteration of `while True`: Duplicate(name)
\* either returns the new type, which ends the loop, or raises
DuplicateAttempt ==
    /\ calc.op = "running" /\ calc.fn = "clone_wall_type_for_layer"
    /\ \E raises \in BOOLEAN :
          IF ~raises
          THEN calc' = [calc EXCEPT !.op = "done", !.attempts = @ + 1,
                                    !.new_type = "duplicated"]
          ELSE IF suffix_exhausted(calc.suffix + 1)
          THEN calc' = [calc EXCEPT !.op = "done", !.attempts = @ + 1,
                                    !.suffix = @ + 1, !.new_type = "None"]
          ELSE calc' = [calc EXCEPT !.attempts = @ + 1, !.suffix = @ + 1]
    /\ UNCHANGED << doc, nextId, tx, snap, sigCache, joinCache, pending, pc, batch, bi,
                    results, ret, loc, call, nelems, faults, dupCalls >>

HelperInit ==
    /\ InitProgram
    /\ calc \in ReferenceOffsetArgs \cup StructureArgs \cup ShrinkArgs \cup CloneArgs
                \cup RehostArgs \cup FillArgs \cup ParserArgs
                \cup AttemptArgs \cup PlaceArgs \cup OpeningArgs \cup HeightArgs
                \cup TransactionArgs \cup SynthAttemptArgs \cup EnqueueArgs

HelperNext ==
    \/ CallReferenceOffset
    \/ CallStructureLayersData
    \/ CallShrinkCurve
    \/ DuplicateAttempt
    \/ CallRehostInstances
    \/ CallFillTemplate
    \/ CallExtractRows
    \/ CallAttemptLayerJoins
    \/ CallPlaceLayers
    \/ CallPlaceOpenings
    \/ CallWallHeight
    \/ CallBreakupWallTransaction
    \/ CallEnqueuePendingJoin

HelperSpec == HelperInit /\ [][HelperNext]_vars

\* every iteration of the retry loop that can run does run
HelperLive == HelperSpec /\ WF_vars(DuplicateAttempt)

\* ------------------------------------------------------------- properties
\* the walls of the model created for a layer of source wall w
DerivedOf(d, w) == {x \in DOMAIN d.walls : d.walls[x].src = w}

\* the elements of the host model: everything but the settings of the view
Elements(d) ==
    [walls |-> d.walls, types |-> d.types, fixtures |-> d.fixtures,
     joins |-> d.joins, openings |-> d.openings]

\* _breakup_wall has returned for loc.wall and main has not yet taken the result
AtReturn == pc = "returned"

\* C1: when _breakup_wall returns, the host model is in one of two states:
\* the transaction is committed, the source wall is gone and the walls created
\* for its layers exist; or nothing is committed and the model is what it was at
\* the call (source wall present, no wall, type, fixture or join of the attempt).
C1_AllOrNothing ==
    AtReturn =>
       \/ /\ tx = "committed"
          /\ loc.wall \notin DOMAIN doc.walls
          /\ loc.created # << >>
          /\ DerivedOf(doc, loc.wall) = Range(loc.created)
       \/ /\ tx # "committed"
          /\ loc.wall \in DOMAIN doc.walls
          /\ DerivedOf(doc, loc.wall) = {}
          /\ Elements(doc) = Elements(call.doc)

\* walls were created for the source and the transaction was rolled back
C1_Witness ==
    AtReturn /\ tx = "rolledback" /\ loc.created # << >> /\ loc.wall \in DOMAIN doc.walls

\* C2: when the loop over the layers ends with no wall created, the transaction
\* is rolled back, the result is status error with created 0, and the source
\* wall and the types of the model are what they were at the call.
C2_NoneCreated ==
    (AtReturn /\ tx # "none" /\ loc.created = << >> /\ loc.li > Len(loc.layer_data)) =>
       /\ ret.status = "error"
       /\ ret.created = 0
       /\ tx = "rolledback"
       /\ loc.wall \in DOMAIN doc.walls
       /\ DerivedOf(doc, loc.wall) = {}
       /\ Elements(doc) = Elements(call.doc)

\* every layer of the element failed, at least one by a refusal of the host
C2_Witness ==
    /\ AtReturn /\ tx = "rolledback" /\ loc.created = << >>
    /\ loc.li > Len(loc.layer_data) /\ faults > 0 /\ ret.message = "none_created"

\* C3: when the deletion of the source wall is refused, the transaction is
\* rolled back, the result is status error with created 0, and the model holds
\* the source wall and none of the walls created for it.
C3_DeleteRefused ==
    (AtReturn /\ ret.message = "delete_failed") =>
       /\ ret.status = "error"
       /\ ret.created = 0
       /\ tx = "rolledback"
       /\ loc.created # << >>
       /\ loc.wall \in DOMAIN doc.walls
       /\ \A k \in DOMAIN loc.created : loc.created[k] \notin DOMAIN doc.walls
       /\ Elements(doc) = Elements(call.doc)

\* the deletion was refused after walls were created and a fixture was rehosted
C3_Witness ==
    AtReturn /\ ret.message = "delete_failed" /\ loc.hosted # << >> /\ Len(loc.created) >= 2

\* the state part of C4
C4_State ==
    /\ pc \in {"rehost", "join_parts", "layer_joins", "delete", "commit"} =>
          (loc.li = Len(loc.layer_data) + 1 /\ loc.created # << >>)
    /\ (AtReturn /\ loc.created # << >> /\ ret.status # "success") =>
          ret.message \in {"delete_failed", "unexpected"}
    /\ (AtReturn /\ ret.status = "success") =>
          /\ ret.created = Len(loc.created)
          /\ ret.created >= 1
          /\ Cardinality(DerivedOf(doc, loc.wall)) = ret.created
          /\ \A k \in DOMAIN loc.produced :
                /\ loc.produced[k].wall \in DOMAIN doc.walls
                /\ \A m \in DOMAIN loc.produced :
                      k < m => loc.produced[k].info.index < loc.produced[m].info.index

\* the step part of C4: an iteration of the layer loop moves on to the next
\* layer with the transaction open, whether or not it created a wall
C4_Step ==
    (pc = "layers" /\ pc' = "layers") =>
       /\ loc'.li = loc.li + 1
       /\ tx' = "open"
       /\ Len(loc'.created) \in {Len(loc.created), Len(loc.created) + 1}

\* C4: a layer whose type resolution or wall creation fails does not abort the
\* element: the remaining layers are attempted in order, and when at least one
\* wall was created the element goes on; a success result reports as created
\* exactly the number of walls created for the element, all of them in the model.
C4_LayerFailureIsolated == [](C4_State) /\ [][C4_Step]_vars

\* success with fewer walls than usable layers, after a refusal of the host
C4_Witness ==
    /\ AtReturn /\ ret.status = "success"
    /\ ret.created >= 1 /\ ret.created < Len(loc.layer_data)

\* a cancelled result is the last result of the batch, and the loop has ended
CancelledIsLast ==
    \A i \in DOMAIN results :
       results[i].status = "cancelled" => (i = Len(results) /\ pc = "summary")

\* C5 as stated: a cancelled host-layer prompt gives a result of status
\* cancelled, no mutation of the host model is made for the element, and the
\* cancelled result is the last result of the batch.
C5_CancelHalts_Original ==
    /\ (AtReturn /\ ret.status = "cancelled") => (tx = "none" /\ doc = call.doc)
    /\ CancelledIsLast

\* C5, amended: a cancelled host-layer prompt gives a result of status cancelled
\* with the transaction of _breakup_wall never started and no element of the
\* model changed; the detail level of the view, which the prompt sets in a
\* transaction of its own, is what it was at the call unless the host refused
\* the transaction that sets it back; the cancelled result is the last result
\* of the batch.
C5_CancelHalts ==
    /\ (AtReturn /\ ret.status = "cancelled") =>
          /\ tx = "none"
          /\ loc.created = << >>
          /\ Elements(doc) = Elements(call.doc)
          /\ (doc.view_detail = call.doc.view_detail \/ loc.preview = "left")
    /\ CancelledIsLast

\* the loop ended on a cancelled result with a wall of the batch left
\* unprocessed and the view left at fine detail
C5_Witness ==
    /\ pc = "summary" /\ results # << >>
    /\ results[Len(results)].status = "cancelled"
    /\ Len(results) < Len(batch)
    /\ doc.view_detail = "Fine"

\* the wall fails a precondition of the decomposition: its type has no layers,
\* no layer wider than the epsilon, or the wall has no location curve
PreconditionFails(w) ==
    LET sld == structure_layers_data(InitTypes[InitWalls[w].type])
    IN \/ sld.data = << >>
       \/ usable_layers(sld.data) = << >>
       \/ ~InitWalls[w].has_curve

\* C6: an element with no layers, no usable layer or no location curve returns
\* status error with no transaction started and the model unchanged, and the
\* loop of main goes on to the next wall of the batch.
C6_PreconditionError ==
    /\ (AtReturn /\ PreconditionFails(loc.wall)) =>
          (ret.status = "error" /\ tx = "none" /\ doc = call.doc)
    /\ \A i \in DOMAIN results :
          PreconditionFails(results[i].wall_id) =>
             /\ results[i].status = "error"
             /\ (pc = "summary" /\ i < Len(batch)) => i < Len(results)

\* the fixtures hosted by the source wall at the call
HostedAtCall == {f \in DOMAIN call.doc.fixtures : call.doc.fixtures[f].host = loc.wall}

\* C7: when an element with hosted fixtures returns success, every fixture the
\* source wall hosted exists exactly once, hosted by the wall of the designated
\* host layer, and the walls of the element host as many fixtures as the source did.
C7_FixturesConserved ==
    (AtReturn /\ ret.status = "success") =>
       /\ \A f \in HostedAtCall :
             Cardinality({g \in DOMAIN doc.fixtures :
                            /\ doc.fixtures[g].origin = call.doc.fixtures[f].origin
                            /\ doc.fixtures[g].host = loc.host_wall}) = 1
       /\ Cardinality({g \in DOMAIN doc.fixtures :
                          doc.fixtures[g].host \in DerivedOf(doc, loc.wall)})
            = Cardinality(HostedAtCall)

\* C9: within one batch no signature sees more than one successful Duplicate
\* call, and two layers of an element with equal signatures resolve to the same
\* wall type.
C9_OneTypePerSignature ==
    /\ \A sig \in DOMAIN dupCalls : dupCalls[sig] <= 1
    /\ tx = "open" =>
          \A k, m \in DOMAIN loc.produced :
             make_signature(loc.produced[k].info) = make_signature(loc.produced[m].info) =>
                doc.walls[loc.produced[k].wall].type = doc.walls[loc.produced[m].wall].type

\* main has cleared what it clears and is about to take the first wall of the batch
BatchStart == pc = "loop" /\ bi = 0

\* C10: at the start of every batch the type cache and the pending-join queue
\* are empty.
C10_CachesResetPerBatch ==
    BatchStart => (sigCache = EmptyMap /\ pending = EmptyMap)

\* the join signature of the layer a derived wall was created for
JoinSigOf(d, x) ==
    layer_signature_for_join(
        structure_layers_data(InitTypes[InitWalls[d.walls[x].src].type]).data[d.walls[x].index])

\* main has processed the batch, and walls a and b were both decomposed in it
\* with status success
BothDecomposed(a, b) ==
    /\ pc = "summary"
    /\ \E i \in DOMAIN results : results[i].wall_id = a /\ results[i].status = "success"
    /\ \E i \in DOMAIN results : results[i].wall_id = b /\ results[i].status = "success"

\* C8: for every join of the project in which wall A cuts wall B, once both have
\* been decomposed successfully in one batch, every derived layer of A whose
\* signature occurs among the derived layers of B is joined to a derived layer
\* of B of that signature, with the layer of A cutting.
C8_JoinPreserved ==
    \A p \in InitJoins :
       BothDecomposed(p[1], p[2]) =>
          \A x \in DerivedOf(doc, p[1]) :
             (\E y \in DerivedOf(doc, p[2]) : JoinSigOf(doc, y) = JoinSigOf(doc, x)) =>
                \E y \in DerivedOf(doc, p[2]) :
                   JoinSigOf(doc, y) = JoinSigOf(doc, x) /\ <<x, y>> \in doc.joins

\* C8 restricted to where the code does re-establish the joins: walls of the same
\* type and the same location line, and a host that refuses nothing.  There the
\* layers of equal index are joined, the layer of the cutting wall cutting.
C8_SameConventionJoined ==
    \A p \in InitJoins :
       (/\ BothDecomposed(p[1], p[2])
        /\ faults = 0
        /\ InitWalls[p[1]].type = InitWalls[p[2]].type
        /\ InitWalls[p[1]].location_line = InitWalls[p[2]].location_line) =>
          \A x \in DerivedOf(doc, p[1]) : \A y \in DerivedOf(doc, p[2]) :
             doc.walls[x].index = doc.walls[y].index => <<x, y>> \in doc.joins

RECURSIVE CreatedWidth(_, _, _)
\* the widths of the walls created[1..n] added up, each wall as wide as the
\* single layer of its type
CreatedWidth(d, created, n) ==
    IF n = 0 THEN 0
    ELSE CreatedWidth(d, created, n - 1)
           + d.types[d.walls[created[n]].type].layers[1].width

\* C11: when a decomposition returns success, the widths of the walls derived
\* from the source add up to the total width of the source assembly, within the
\* 1e-6 epsilon.
C11_MassConserved ==
    (AtReturn /\ ret.status = "success") =>
       Abs(CreatedWidth(doc, loc.created, Len(loc.created)) - loc.total_width) <= WIDTH_EPS

\* a call of helper fn has returned
Returned_(fn) == calc.op = "done" /\ calc.fn = fn

\* C12: _reference_offset returns totalWidth/2 for the wall centerline, 0 for the
\* exterior finish face, totalWidth for the interior finish face, coreStart and
\* coreEnd for the core faces, (coreStart+coreEnd)/2 for the core centerline and
\* totalWidth/2 for a value that is no location line; for widths 100, 50, 100
\* with the middle layer core that is 125, 0, 250, 100 and 150.  (calc.out is
\* twice the offset.)
C12_ReferenceOffset ==
    Returned_("reference_offset") =>
       LET a == calc.args
           line == a.location_line
       IN /\ line = "WallCenterline" => calc.out = a.total_width
          /\ line = "FinishFaceExterior" => calc.out = 0
          /\ line = "FinishFaceInterior" => calc.out = 2 * a.total_width
          /\ line = "CoreFaceExterior" => calc.out = 2 * a.core_start
          /\ line = "CoreFaceInterior" => calc.out = 2 * a.core_end
          /\ line = "CoreCenterline" => calc.out = a.core_start + a.core_end
          /\ line = "Unrecognized" => calc.out = a.total_width
          /\ (a.total_width = 250 /\ a.core_start = 100 /\ a.core_end = 150) =>
                /\ line = "WallCenterline" => calc.out = 2 * 125
                /\ line = "FinishFaceExterior" => calc.out = 2 * 0
                /\ line = "FinishFaceInterior" => calc.out = 2 * 250
                /\ line = "CoreFaceExterior" => calc.out = 2 * 100
                /\ line = "CoreFaceInterior" => calc.out = 2 * 150

\* the interior core face of the assembly 100, 50, 100 has been computed
C12_Witness ==
    /\ Returned_("reference_offset")
    /\ calc.args.location_line = "CoreFaceInterior"
    /\ calc.args.total_width = 250
    /\ calc.args.core_start = 100
    /\ calc.args.core_end = 150
    /\ calc.out = 300

\* C13: without a core layer coreStart and coreEnd are both the midpoint
\* totalWidth/2; with one, coreStart is the start of the first core layer and
\* coreEnd the end of the last core layer.
C13_CoreSpan ==
    Returned_("structure_layers_data") =>
       LET st == calc.args.structure
           o == calc.out
       IN IF st.first_core = -1 /\ st.last_core = -1
          THEN 2 * o.core_start = o.total_width /\ 2 * o.core_end = o.total_width
          ELSE /\ o.core_start = SumWidth(st.layers, st.first_core)
               /\ o.core_end = SumWidth(st.layers, st.last_core + 1)

StepOrder ==
    { <<"layers", "layers">>, <<"layers", "join_parts">>, <<"join_parts", "layer_joins">>,
      <<"layer_joins", "rehost">>, <<"rehost", "delete">>, <<"delete", "commit">>,
      <<"commit", "returned">> }

\* a run that failed after t.Start() has returned with the transaction rolled back
FailedRunsRolledBack ==
    (AtReturn /\ tx # "none" /\ ret.status # "success") => tx = "rolledback"

\* C15: on a run that commits, the steps of an element come in the order layers
\* created, joins reconciled, fixtures migrated, source deleted, commit; a run
\* that fails after the transaction started ends rolled back.
C15_Lifecycle ==
    /\ [][(tx = "open" /\ tx' \in {"open", "committed"} /\ pc' # pc)
             => <<pc, pc'>> \in StepOrder]_vars
    /\ [](FailedRunsRolledBack)

\* joins of the model between a wall created for the running source and a wall
\* that was not
OuterJoins(joins) ==
    {j \in joins : (j[1] \in Range(loc.created)) # (j[2] \in Range(loc.created))}
\* joins of the model between two walls created for the running source
InnerJoins(joins) ==
    {j \in joins : j[1] \in Range(loc.created) /\ j[2] \in Range(loc.created)}

\* the walls created so far follow the order of the layers, and up to the end of
\* the joins among them none of them is joined with any other wall
C16_State ==
    /\ \A i, k \in DOMAIN loc.created :
          (tx \in {"open", "committed"} /\ i < k)
                => /\ doc.walls[loc.created[i]].index < doc.walls[loc.created[k]].index
                   /\ loc.created[i] < loc.created[k]
    /\ (tx = "open" /\ pc \in {"layers", "rehost", "join_parts"}) => OuterJoins(doc.joins) = {}

\* a step adds joins among the created walls only in the loop over the created
\* walls, and joins with other walls only in _handle_layer_joins after it
C16_Step ==
    /\ InnerJoins(doc'.joins) \ doc.joins # {} => pc = "join_parts" /\ pc' = "layer_joins"
    /\ (tx = "open" /\ tx' = "open" /\ OuterJoins(doc'.joins) \ doc.joins # {})
          => pc = "layer_joins" /\ pc' = "delete"

\* C16: the walls of one source are created in the order of the layers, and
\* every join between two of them is attempted before the first join between one
\* of them and a wall of a neighbour.
C16_CreationAndJoinOrder == [](C16_State) /\ [][C16_Step]_vars

\* three walls of a source are created and joined, and one of them is joined
\* with a wall of a neighbour
C16_Witness ==
    /\ pc = "delete"
    /\ Len(loc.created) = 3
    /\ InnerJoins(doc.joins) # {}
    /\ OuterJoins(doc.joins) # {}

\* after the joins among the created walls and after the joins with the
\* neighbours, whatever came of them, the transaction is open and every wall
\* created for the source is in the model
C17_State ==
    pc \in {"layer_joins", "delete"} =>
       /\ tx = "open"
       /\ Range(loc.created) \subseteq DOMAIN doc.walls

\* a deletion that succeeds is followed by the commit, and the commit by the
\* result success
C17_Step ==
    /\ (pc = "delete" /\ pc' # "returned") => (pc' = "commit" /\ tx' = "open")
    /\ (pc = "commit" /\ tx' = "committed") => (ret'.status = "success" /\ pc' = "returned")

MigratedTo(d, f, w) ==
    {x \in DOMAIN d.fixtures : d.fixtures[x].origin = f /\ d.fixtures[x].host = w /\ x # f}

\* C18: an instance the host does not re-create on the host wall, or for which
\* no opening comes about in another wall, keeps neither the other instances
\* from being migrated nor the call from returning: every instance the host
\* re-creates is on the host wall afterwards, with the openings the host made
\* for it, and an instance the host did not re-create stays where it was.
C18_FixtureFailureIsolated ==
    Returned_("rehost_instances") =>
       LET a == calc.args
           d == calc.out.doc
       IN \A i \in DOMAIN a.instances :
             IF calc.host[i].create_ok
             THEN /\ Cardinality(MigratedTo(d, a.instances[i], a.new_host_wall)) = 1
                  /\ (a.instances[i] \in DOMAIN d.fixtures) = ~calc.host[i].delete_ok
                  /\ \A x \in MigratedTo(d, a.instances[i], a.new_host_wall) :
                     \A k \in DOMAIN a.other_walls :
                        (\E c \in {"void", "manual"} : <<a.other_walls[k], x, c>> \in d.openings)
                           = (calc.host[i].cut # "none")
             ELSE /\ MigratedTo(d, a.instances[i], a.new_host_wall) = {}
                  /\ a.instances[i] \in DOMAIN d.fixtures

\* the first of two instances was not re-created, the second is on the host
\* wall without an opening in the wall before it
C18_Witness ==
    /\ Returned_("rehost_instances")
    /\ Len(calc.args.instances) = 2
    /\ ~calc.host[1].create_ok
    /\ calc.host[2].create_ok /\ calc.host[2].cut = "none"
    /\ MigratedTo(calc.out.doc, 62, 202) # {}
    /\ calc.out.doc.openings = {}

\* the retry loop of _clone_wall_type_for_layer is running / has ended
CloneRunning == calc.fn = "clone_wall_type_for_layer" /\ calc.op = "running"
CloneDone == calc.fn = "clone_wall_type_for_layer" /\ calc.op = "done"

\* Duplicate was attempted at most MAX_SUFFIX times; the name of the next attempt
\* carries the suffix after the one of the last attempt; the loop ends with a
\* type when an attempt succeeds, and with None exactly after MAX_SUFFIX
\* attempts that all failed
C19_State ==
    calc.fn = "clone_wall_type_for_layer" =>
       /\ calc.attempts <= MAX_SUFFIX
       /\ calc.op = "running" => (calc.suffix = calc.attempts + 1 /\ calc.new_type = "pending")
       /\ (calc.op = "done" /\ calc.new_type = "duplicated") => calc.suffix = calc.attempts
       /\ (calc.op = "done" /\ calc.new_type # "duplicated") =>
             (calc.new_type = "None" /\ calc.attempts = MAX_SUFFIX)

\* an attempt that fails moves on to the next suffix
C19_Step ==
    (CloneRunning /\ calc'.new_type # "duplicated") =>
       (calc'.suffix = calc.suffix + 1 /\ calc'.attempts = calc.attempts + 1)

\* C19: type creation for a layer terminates: on colliding names
\* _clone_wall_type_for_layer retries with the next suffix, attempts Duplicate at
\* most 50 times, and then returns no type.
C19_CloneTerminates ==
    /\ [](C19_State)
    /\ [][C19_Step]_vars
    /\ (CloneRunning ~> CloneDone)

\* fifty names were refused and the loop has returned None
C19_Witness ==
    /\ CloneDone
    /\ calc.new_type = "None"
    /\ calc.attempts = 50
    /\ calc.suffix = 51

\* the walls created for the running source whose layer the operator selected,
\* and those whose layer is tagged Structure
SelectedWalls ==
    {x \in Range(loc.created) : loc.selected # 0 /\ doc.walls[x].index = loc.selected}
StructureWalls ==
    {loc.produced[k].wall : k \in {m \in DOMAIN loc.produced :
                                      loc.produced[m].info.function = "Structure"}}

\* C20: the fixture host is the produced layer with the index the operator
\* selected; when no produced layer has that index, the first produced layer
\* tagged Structure; when there is none, the first produced layer.
C20_HostChoice ==
    (pc = "rehost" /\ tx = "open") =>
       /\ loc.host_wall \in Range(loc.created)
       /\ SelectedWalls # {} => loc.host_wall \in SelectedWalls
       /\ (SelectedWalls = {} /\ StructureWalls # {}) =>
             /\ loc.host_wall \in StructureWalls
             /\ \A x \in StructureWalls : loc.host_wall <= x
       /\ (SelectedWalls = {} /\ StructureWalls = {}) => loc.host_wall = loc.created[1]
       /\ loc.preceding = [k \in 1..Len(loc.preceding) |-> loc.created[k]]
       /\ loc.created[Len(loc.preceding) + 1] = loc.host_wall

\* the operator selected the Structure layer, its wall was not created, and the
\* first of the two walls that were created is the host
C20_Witness ==
    /\ pc = "rehost"
    /\ loc.selected = 2
    /\ Len(loc.created) = 2
    /\ SelectedWalls = {}
    /\ StructureWalls = {}
    /\ loc.host_wall = loc.created[1]
    /\ loc.hosted # << >>

\* the result _breakup_wall returns is well formed: a status of the three, and
\* walls counted only under success, as many as are in the model for the source
ResultWellFormed(r) ==
    /\ r.status \in {"success", "cancelled", "error"}
    /\ r.created > 0 => r.status = "success"
    /\ r.created = Cardinality(DerivedOf(doc, r.wall_id))

\* C21: every wall processed in a batch yields one result with status success,
\* cancelled or error; created is above 0 only under success, where it is the
\* number of walls committed for the wall; in the summary the successes and the
\* failures add up to the results, and the total created is the sum of created
\* over the successes.
C21_ResultsAndSummary ==
    /\ AtReturn =>
          /\ ResultWellFormed(ret)
          /\ ret.wall_id = batch[bi]
          /\ Len(results) = bi - 1
          /\ ret.status = "success" => (tx = "committed" /\ ret.created > 0)
    /\ pc \in {"loop", "summary"} =>
          /\ Len(results) = bi
          /\ \A i \in DOMAIN results :
                ResultWellFormed(results[i]) /\ results[i].wall_id = batch[i]
    /\ pc = "summary" =>
          LET s == summary(results)
          IN /\ s.processed = Len(results)
             /\ s.success + s.failure = Len(results)
             /\ s.total_created =
                   Cardinality({x \in DOMAIN doc.walls :
                                   \E i \in DOMAIN results : doc.walls[x].src = results[i].wall_id})

\* a batch of two walls ends with one wall decomposed and the other cancelled
C21_Witness ==
    /\ pc = "summary"
    /\ Len(results) = 2
    /\ summary(results).success = 1
    /\ summary(results).failure = 1
    /\ summary(results).total_created = 3
    /\ \E i \in DOMAIN results : results[i].status = "cancelled"

\* C22: after fill_section3_template wrote n rows from the data start row, every
\* row of an earlier filling at position n+1 or later, up to the first empty row
\* or footer row, has its data columns and its numbering column cleared, and the
\* footer row and everything below it are as they were.
C22_FillClearsOldRows ==
    Returned_("fill_section3_template") =>
       LET before == calc.args.worksheet
           existing == count_existing_rows(before, 1)
       IN /\ \A r \in DOMAIN before :
                (r > calc.args.rows /\ r <= existing) =>
                   /\ \A i \in DOMAIN calc.out[r].cells : calc.out[r].cells[i] = "None"
                   /\ calc.args.numbering => calc.out[r].num = "None"
          /\ (existing + 1 \in DOMAIN before /\ is_footer_row(before[existing + 1].cells)) =>
                \A r \in DOMAIN before : r > existing => calc.out[r] = before[r]

\* C23: extract_section3_rows returns one row for every record that holds a
\* non-empty text or a parsable number under a header of a section 3 field,
\* in the order of the records, and none for the other records; in every row
\* the part area is the area when the record has no part area of its own but
\* has an area.
has_meaningful_value(record) ==
    \E i \in DOMAIN Headers :
        LET header == Headers[i]
            field == match_field(header).field
        IN /\ record[header] # "absent"
           /\ field # "None"
           /\ IF field \in NUMERIC_FIELDS
                 THEN parse_number(record[header]) \notin {"None", "nan"}
                 ELSE clean_string(record[header]) # "None"

own_number(record, field) ==
    \E i \in DOMAIN Headers :
        /\ record[Headers[i]] # "absent"
        /\ match_field(Headers[i]).field = field
        /\ parse_number(record[Headers[i]]) \notin {"None", "nan"}

C23_ExtractRows ==
    Returned_("extract_section3_rows") =>
       LET kept == SelectSeq(calc.args.source, has_meaningful_value)
       IN /\ Len(calc.out) = Len(kept)
          /\ \A i \in DOMAIN kept :
                (i \in DOMAIN calc.out /\ ~own_number(kept[i], "part_area") /\ own_number(kept[i], "area")) =>
                   calc.out[i]["part_area"] = calc.out[i]["area"]

\* C24: the deletion of the source wall is attempted only when every fixture
\* collected from the source has been re-created on the wall of the host
\* layer.
C24_DeleteAfterMigration ==
    pc = "delete" =>
       \A i \in DOMAIN loc.hosted :
          \E g \in DOMAIN doc.fixtures :
             /\ doc.fixtures[g].origin = call.doc.fixtures[loc.hosted[i]].origin
             /\ doc.fixtures[g].host = loc.host_wall

\* the reconciliation of the wall in hand puts an item into the queue under n
EnqueuedFor(n) ==
    /\ n \in DOMAIN pending'
    /\ n \notin DOMAIN pending \/ pending'[n] # pending[n]

\* the reconciliation of the wall in hand joins a produced wall with a wall of
\* the layer entry e
RejoinedWith(e) ==
    \E k \in DOMAIN loc.produced : \E m \in DOMAIN e.layers :
       /\ AreJoined(doc'.joins, loc.produced[k].wall, e.layers[m].wall_id)
       /\ ~AreJoined(doc.joins, loc.produced[k].wall, e.layers[m].wall_id)

C25_Step ==
    (pc = "layer_joins" /\ pc' = "delete") =>
       \A i \in DOMAIN loc.joined :
          LET info == loc.joined[i]
          IN /\ EnqueuedFor(info.id) =>
                   (info.entry = NoEntry /\ info.id \notin DOMAIN joinCache')
             /\ (info.entry # NoEntry /\ RejoinedWith(info.entry)) => ~EnqueuedFor(info.id)

\* C25: a pending join is enqueued for a neighbour only when the neighbour has
\* no layer entry yet, and nothing is enqueued for a neighbour with whose
\* layer entry a join was re-established in the same reconciliation.
C25_EnqueueOnlyUndecomposed == [][C25_Step]_vars

\* the negation of a recorded cut precedence
Negated(self_cuts) == IF self_cuts = "T" THEN "F" ELSE IF self_cuts = "F" THEN "T" ELSE "N"

\* the item the reconciliation of the wall in hand queued under n
QueuedItem(n) == pending'[n][Len(pending'[n])]

\* the joins the reconciliation of the wall in hand makes between a produced
\* wall p and a wall q of a queued layer entry
NewPendingJoins ==
    {pq \in Range(loc.created) \X DOMAIN doc.walls :
        /\ \E k \in DOMAIN pending[loc.wall] :
              \E m \in DOMAIN pending[loc.wall][k].entry.layers :
                 pending[loc.wall][k].entry.layers[m].wall_id = pq[2]
        /\ AreJoined(doc'.joins, pq[1], pq[2])
        /\ ~AreJoined(doc.joins, pq[1], pq[2])}

C26_Step ==
    (pc = "layer_joins" /\ pc' = "delete") =>
       /\ \A i \in DOMAIN loc.joined :
             EnqueuedFor(loc.joined[i].id) =>
                /\ QueuedItem(loc.joined[i].id).meta.self_cuts = Negated(loc.joined[i].self_cuts)
                /\ QueuedItem(loc.joined[i].id).meta.allow_mismatch = loc.joined[i].allow_mismatch
                /\ \A m \in DOMAIN QueuedItem(loc.joined[i].id).entry.layers :
                      QueuedItem(loc.joined[i].id).entry.layers[m].wall_id \in Range(loc.created)
       /\ (loc.wall \in DOMAIN pending /\ faults' = 0) =>
             \A pq \in NewPendingJoins :
                (<<pq[2], pq[1]>> \in doc'.joins) = (<<doc.walls[pq[2]].src, loc.wall>> \in InitJoins)

JoinedLayerPairs ==
    {ab \in Range(calc.args.entry_a.layers) \X Range(calc.args.entry_b.layers) :
        AreJoined(calc.out, ab[1].wall_id, ab[2].wall_id)}

\* C28: every join the reconciler makes between a produced layer and a layer
\* of a neighbour pairs two layers of equal join signature (material id, width
\* rounded to 1e-6, function).
C28_JoinsPairEqualSignatures ==
    Returned_("attempt_layer_joins") =>
       \A ab \in JoinedLayerPairs :
          /\ ab[1].material_id = ab[2].material_id
          /\ Round6(ab[1].width) = Round6(ab[2].width)
          /\ ab[1].function = ab[2].function

\* C29: the offsets of both layers being known, the reconciler joins no
\* produced layer with a layer of the neighbour whose lateral offset differs
\* from its own by more than the tolerance 1e-4.
C29_JoinsWithinTolerance ==
    Returned_("attempt_layer_joins") =>
       \A ab \in JoinedLayerPairs : Abs(ab[1].offset - ab[2].offset) <= 2 * OFFSET_TOLERANCE

\* the reconciliation of the wall in hand joins a produced wall with a wall of
\* the queued item
AttemptedItem(item) ==
    \E p \in Range(loc.created) : \E m \in DOMAIN item.entry.layers :
       /\ AreJoined(doc'.joins, p, item.entry.layers[m].wall_id)
       /\ ~AreJoined(doc.joins, p, item.entry.layers[m].wall_id)

\* the walls of the queued item are in the model of the host, the item is
\* for the wall type of the wall in hand or allows a mismatch, and one of its
\* layers has the index of a layer produced for the wall in hand and an
\* offset within the tolerance of that layer's
ItemJoinable(item) ==
    /\ \A m \in DOMAIN item.entry.layers : item.entry.layers[m].wall_id \in DOMAIN doc.walls
    /\ item.entry.wall_type_id = loc.wall_type_id \/ item.meta.allow_mismatch
    /\ \E m \in DOMAIN item.entry.layers : \E k \in DOMAIN loc.produced :
          /\ item.entry.layers[m].index = loc.produced[k].info.index
          /\ Abs(item.entry.layers[m].offset - loc.produced[k].offset) <= 2 * OFFSET_TOLERANCE

C27_Step ==
    /\ (pc = "layer_joins" /\ pc' = "delete") =>
          /\ loc.wall \notin DOMAIN pending'
          /\ (loc.wall \in DOMAIN pending /\ faults' = faults) =>
                \A k \in DOMAIN pending[loc.wall] :
                   ItemJoinable(pending[loc.wall][k]) => AttemptedItem(pending[loc.wall][k])
    /\ \A i \in DOMAIN results' :
          results'[i].status = "success" => results'[i].wall_id \notin DOMAIN pending'

Surviving(layers) == SetToSeq({i \in DOMAIN layers : layers[i].width > WIDTH_EPS})

\* the layers placed are the surviving layers in order, the first and the last
\* of them marked so and placed on the unshrunk curve
FirstAndLastUnshrunk ==
    LET surviving == Surviving(calc.args.structure.layers)
        n == Len(surviving)
    IN /\ Len(calc.out) = n
       /\ \A k \in DOMAIN calc.out :
             /\ calc.out[k].info.index = surviving[k]
             /\ calc.out[k].info.width > WIDTH_EPS
             /\ calc.out[k].info.is_first = (k = 1)
             /\ calc.out[k].info.is_last = (k = n)
             /\ k \in {1, n} => calc.out[k].adjusted_curve = calc.args.base_curve

SourceLayers == call.doc.types[loc.wall_type_id].layers

\* the lateral band of a produced layer, doubled: offset -/+ width / 2
BandLow(p) == p.offset - p.info.width
BandHigh(p) == p.offset + p.info.width

\* C31: every produced layer has offset = (start + end) / 2 - referenceOffset,
\* start and end being the cumulative widths over the unfiltered stack of the
\* source type; the lateral bands of the produced layers of one source do not
\* overlap and lie within [-referenceOffset, totalWidth - referenceOffset].
C31_LayerBands ==
    \A k \in DOMAIN loc.produced :
       LET p == loc.produced[k]
       IN /\ p.info.start = SumWidth(SourceLayers, p.info.index - 1)
          /\ p.info.end = SumWidth(SourceLayers, p.info.index)
          /\ p.offset = (p.info.start + p.info.end) - loc.reference_offset
          /\ BandLow(p) >= -loc.reference_offset
          /\ BandHigh(p) <= 2 * SumWidth(SourceLayers, Len(SourceLayers)) - loc.reference_offset
          /\ \A m \in DOMAIN loc.produced :
                k < m => BandHigh(p) <= BandLow(loc.produced[m])

\* the three layers of a wall with a positive reference offset are produced,
\* and the band of the second starts where the band of the first ends
C31_Witness ==
    /\ pc = "delete"
    /\ Len(loc.produced) = 3
    /\ loc.reference_offset > 0
    /\ BandHigh(loc.produced[1]) = BandLow(loc.produced[2])

\* the position of a wall among the produced layers of the call
ProducedPosition(w) ==
    CHOOSE k \in DOMAIN calc.args.produced_layers : calc.args.produced_layers[k].wall = w

\* the places in the attempts of the call where `kind` is tried on wall w
AttemptsOn(w, kind) ==
    {n \in DOMAIN calc.out.result.attempts : calc.out.result.attempts[n] = <<w, kind>>}

\* C32: for a re-created fixture exactly the produced layers created before the
\* host layer receive an opening attempt: the automatic void cut is tried
\* first, the manual opening only if the void cut was not performed; the host
\* layer and the layers created after it receive neither.
C32_OpeningsBeforeHost ==
    Returned_("place_openings") =>
       \A k \in DOMAIN calc.args.produced_layers :
          LET w == calc.args.produced_layers[k].wall
          IN IF k < ProducedPosition(calc.out.host_wall)
             THEN /\ Cardinality(AttemptsOn(w, "void")) = 1
                  /\ Cardinality(AttemptsOn(w, "manual"))
                        = (IF calc.host[k] = "void" THEN 0 ELSE 1)
                  /\ \A n \in AttemptsOn(w, "void") : \A m \in AttemptsOn(w, "manual") : n < m
                  /\ <<w, calc.args.new_inst, "manual">> \in calc.out.result.openings
                        => calc.host[k] = "manual"
             ELSE /\ AttemptsOn(w, "void") = {} /\ AttemptsOn(w, "manual") = {}
                  /\ \A c \in {"void", "manual"} :
                        <<w, calc.args.new_inst, c>> \notin calc.out.result.openings

\* the host is the second of three produced layers; the void cut of the first
\* layer is not performed and the manual opening is tried after it
C32_Witness ==
    /\ Returned_("place_openings")
    /\ Len(calc.args.produced_layers) = 3
    /\ calc.out.host_wall = 202
    /\ calc.out.result.attempts = << <<201, "void">>, <<201, "manual">> >>

\* the layer whose type was resolved last in the running layer loop
ResolvedLayer == loc.layer_data[loc.li - 1]

\* _clone_wall_type_for_layer returned a type for the layer resolved last
TypeReturned == pc = "layers" /\ loc.li > 1 /\ loc.layer_type # 0

C33_State ==
    TypeReturned =>
       /\ make_signature(ResolvedLayer) \in DOMAIN sigCache
       /\ sigCache[make_signature(ResolvedLayer)] = loc.layer_type
       /\ loc.layer_type \in scan_matches(doc.types, make_signature(ResolvedLayer))

C33_Step ==
    (pc = "layers" /\ pc' = "layers" /\ loc'.li = loc.li + 1
       /\ make_signature(loc.layer_data[loc.li]) \in DOMAIN sigCache) =>
          /\ loc'.layer_type = sigCache[make_signature(loc.layer_data[loc.li])]
          /\ sigCache' = sigCache
          /\ doc'.types = doc.types
          /\ dupCalls' = dupCalls

\* C33: a type that type resolution returns for a signature is stored in the
\* cache under that signature and is, in the host model, a single-layer type
\* whose width is within 1e-6 of the width of the signature and whose material
\* and function are those of the signature where it specifies them; a cache hit
\* returns the cached type, scans nothing and creates no type.
C33_ResolvedTypeMatches == [](C33_State) /\ [][C33_Step]_vars

\* the authored height of the call where it can be read and is positive, else 0
AuthoredHeight ==
    LET p == calc.args.height_param
    IN IF p.present /\ p.has_value # "F" /\ p.value # << >> /\ p.value[1] > 0
       THEN p.value[1] ELSE 0

\* the largest positive height the geometry of the call yields, else 0
GeometryHeight ==
    LET hs == {h \in Range(calc.args.bbox_height) \cup Range(calc.args.curve_rise) : h > 0}
    IN IF hs = {} THEN 0 ELSE CHOOSE h \in hs : \A g \in hs : g <= h

\* C34: the height used to create the derived walls is at least the minimum
\* dimension of the host: the authored height when that is positive, otherwise
\* the height from the geometry when that is positive, otherwise the minimum
\* dimension, and a chosen value below the minimum dimension is raised to it.
C34_HeightAtLeastMinimum ==
    Returned_("wall_height") =>
       /\ calc.out >= REVIT_MIN_DIMENSION
       /\ calc.out > 0
       /\ calc.out = Max(REVIT_MIN_DIMENSION,
                         IF AuthoredHeight > 0 THEN AuthoredHeight
                         ELSE IF GeometryHeight > 0 THEN GeometryHeight
                         ELSE REVIT_MIN_DIMENSION)

\* no authored height can be read, the geometry gives a positive height below
\* the minimum dimension, and the minimum dimension is used
C34_Witness ==
    /\ Returned_("wall_height")
    /\ AuthoredHeight = 0
    /\ GeometryHeight > 0 /\ GeometryHeight < REVIT_MIN_DIMENSION
    /\ calc.out = REVIT_MIN_DIMENSION

\* C35: every type the type cache holds is a type of the host model: after a
\* transaction was rolled back the cache holds no type created inside it, so
\* no later element of the batch gets a cache hit for a type that is gone.
C35_CachedTypesExist ==
    \A signature \in DOMAIN sigCache : sigCache[signature] \in DOMAIN doc.types

\* the walls an item of the queue refers to
ItemWalls(item) == {item.entry.layers[m].wall_id : m \in DOMAIN item.entry.layers}

DeleteFailed == AtReturn /\ ret.message = "delete_failed"

\* C36: after an element was rolled back because the deletion of the source
\* failed, the join cache has no entry for the element, no item of the queue
\* refers to a derived wall of the element, and the items queued under the
\* element before the call are still queued.
C36_RollbackLeavesJoinState ==
    DeleteFailed =>
       /\ loc.wall \notin DOMAIN joinCache
       /\ \A n \in DOMAIN pending : \A k \in DOMAIN pending[n] :
             ItemWalls(pending[n][k]) \cap Range(loc.created) = {}
       /\ loc.wall \in DOMAIN call.pending =>
             /\ loc.wall \in DOMAIN pending
             /\ \A k \in DOMAIN call.pending[loc.wall] :
                   \E m \in DOMAIN pending[loc.wall] :
                      pending[loc.wall][m] = call.pending[loc.wall][k]

\* C37: a transaction _breakup_wall started is ended exactly once, by Commit
\* or by RollBack, on every path out of the function: it is not left open, and
\* neither RollBack nor Commit is called on it once it is ended.
C37_TransactionEndedOnce ==
    Returned_("breakup_wall_transaction") =>
       /\ calc.out.t.status \in {"committed", "rolledback"}
       /\ calc.out.t.ends = 1
       /\ ~calc.out.t.on_ended

\* _breakup_wall returned before it started its transaction
ReturnedBeforeStart ==
    /\ AtReturn
    /\ \/ ret.status = "cancelled"
       \/ ret.message \in {"no_layers", "no_usable_layers", "no_curve"}

\* C38: when _breakup_wall returns cancelled or with a precondition error, the
\* type cache, the join cache and the pending-join queue hold exactly the
\* entries they held before the call.
C38_EarlyReturnKeepsBatchState ==
    ReturnedBeforeStart =>
       /\ sigCache = call.sigCache
       /\ joinCache = call.joinCache
       /\ pending = call.pending

\* the walls the layers of an entry stand for
EntryWalls(entry) == {entry.layers[k].wall_id : k \in DOMAIN entry.layers}

\* the walls of the first entry that the call joined with wall b
JoinedWith(b) == {a \in EntryWalls(calc.args.entry_a) : AreJoined(calc.out, a, b)}

\* C39: in one call of _attempt_layer_joins no wall of the second entry is
\* joined with more than one layer of the first entry; a neighbour that is not
\* decomposed, all layers of its entry carrying its own wall id, is joined
\* with at most one produced layer.
C39_OneJoinPerWall ==
    Returned_("attempt_layer_joins") =>
       \A b \in EntryWalls(calc.args.entry_b) : Cardinality(JoinedWith(b)) <= 1

\* the entry synthesized for the neighbour has two layers, both wall 311, the
\* first entry has two layers, and exactly one of them is joined with wall 311
C39_Witness ==
    /\ Returned_("attempt_layer_joins")
    /\ Len(calc.args.entry_a.layers) >= 2
    /\ Len(calc.args.entry_b.layers) >= 2
    /\ EntryWalls(calc.args.entry_b) = {311}
    /\ Cardinality(JoinedWith(311)) = 1

Enqueueing == calc.fn = "enqueue_pending_join"

\* wall type id and set of layer wall ids of a queued item
ItemIdentity(item) == << item.entry.wall_type_id, EntryWalls(item.entry) >>

C40_State ==
    Enqueueing =>
       \A n \in DOMAIN calc.queue :
          \A i, j \in DOMAIN calc.queue[n] :
             (i # j /\ ItemIdentity(calc.queue[n][i]) = ItemIdentity(calc.queue[n][j]))
                => calc.queue[n][i].meta # calc.queue[n][j].meta

C40_Step ==
    (Enqueueing /\ calc'.calls = calc.calls + 1
       /\ (calc'.last.target_wall_id = 0 \/ calc'.last.entry.layers = << >>))
          => calc'.queue = calc.queue

\* C40: after any sequence of _enqueue_pending_join calls the list queued under
\* one target id has no two items of the same entry identity (wall type id and
\* layer wall ids) and the same cut metadata; a call without a target id, with
\* an empty entry or with an entry without layers leaves the queue as it was.
C40_QueueDeduplicated == [](C40_State) /\ [][C40_Step]_vars

\* an entry of the walls of a queued item, with other offsets and the same
\* metadata, was handed over, and the list still has the one item
C40_Witness ==
    /\ Enqueueing
    /\ calc.calls = 2
    /\ calc.last.target_wall_id = 1
    /\ 1 \in DOMAIN calc.queue
    /\ Len(calc.queue[1]) = 1
    /\ calc.last.entry # calc.queue[1][1].entry
    /\ calc.last.entry.layers # << >>
    /\ calc.last.meta = calc.queue[1][1].meta

====
